---------------------------- MODULE Spec2Model ----------------------------
(***************************************************************************)
(* State-machine model of the tether provider layer: the LLM service       *)
(* adapters (template/backend/app/services/llm.py and the tether-python    *)
(* package), and the routes that reconfigure and use the single adapter    *)
(* held in app.state (routes/chat.py, routes/models.py, routes/apikey.py). *)
(*                                                                         *)
(* Python strings are sequences of character tokens, so that               *)
(* m.split(":")[0] is computed and not assumed.  Python's None is the      *)
(* one-token sequence None.  Coroutines are split at the awaits after      *)
(* which they read or write adapter state; a suspended coroutine occupies  *)
(* a slot of frame.                                                        *)
(***************************************************************************)
EXTENDS Naturals, Integers, Sequences, FiniteSets, Bags, TLC

\* ------------------------------------------------------------------ bounds
\* Coroutines that may be suspended at an await at the same time.
NumProcs == 2
\* Transport handles (httpx / OpenAI / genai clients, Llama objects) created.
MaxHandles == 2
\* Longest model catalog the backend registry returns.
MaxCatalog == 2
\* Messages in the history of a chat request.
MaxHistory == 1
\* Tokens in a model response given to parse_thinking_content.
MaxText == 5
\* Pieces in a model name given to the cost estimator.
MaxName == 3
\* Pieces in the value of OLLAMA_HOST.
MaxHost == 6
\* Messages in the history of a chat request whose message list is built.
MaxTurns == 2
\* Lines a streamed response delivers before the transport ends.
MaxLines == 2

\* ------------------------------------------------------- python values
None == <<"None">>

\* bool(s) of an Optional[str]
Truthy(s) == s # None /\ s # <<>>

\* a or b
PyOr(a, b) == IF Truthy(a) THEN a ELSE b

\* index of the first ":" of m, 0 when there is none
FirstColon(m) ==
    IF \E i \in 1..Len(m) : m[i] = ":"
    THEN CHOOSE i \in 1..Len(m) : m[i] = ":" /\ \A j \in 1..(i - 1) : m[j] # ":"
    ELSE 0

\* m.split(":")[0]
SplitBase(m) == IF FirstColon(m) = 0 THEN m ELSE SubSeq(m, 1, FirstColon(m) - 1)

\* A lookup that knows the full catalog names only.
ModelFoundExact(name, models) ==
    \E i \in 1..Len(models) : name = models[i]

\* any(name == m or name == m.split(":")[0] for m in models)
ModelFound(name, models) ==
    \E i \in 1..Len(models) : name = models[i] \/ name = SplitBase(models[i])

\* index of the last "/" of s, 0 when there is none
LastSlash(s) ==
    IF \E i \in 1..Len(s) : s[i] = "/"
    THEN CHOOSE i \in 1..Len(s) : s[i] = "/" /\ \A j \in (i + 1)..Len(s) : s[j] # "/"
    ELSE 0

\* s.split("/")[-1]
LastComponent(s) == SubSeq(s, LastSlash(s) + 1, Len(s))

\* body.model not in available  (Gemini: exact membership only)
InList(name, models) == \E i \in 1..Len(models) : name = models[i]

\* ------------------------------------------------------- input domains
\* Names a local daemon's registry reports (never empty before the tag).
CatalogEntries == { <<"a">>, <<"b", ":", "l">> }

\* Names a caller asks for in POST /models/switch: the empty string, an entry,
\* an entry's base name, an entry's base name under a tag the registry lacks.
RequestNames == { <<>>, <<"a">>, <<"b">>, <<"a", ":", "l">> }

\* Sequences of distinct entries, in registry order.
Catalogs ==
    { c \in UNION { [1..n -> CatalogEntries] : n \in 0..MaxCatalog } :
        \A i, j \in 1..Len(c) : i # j => c[i] # c[j] }

\* Credentials a caller posts to /api-key: the empty string, a key.
ApiKeys == { <<>>, <<"k">> }

\* settings.tether_ollama_model: unset, in the registry, not in it
OllamaConfigured == { None, <<"a">>, <<"c">> }

\* settings.tether_gemini_model, settings.tether_openai_model
GeminiDefault == <<"g">>
OpenAIDefault == <<"o">>
GeminiThinking == <<"2", ".", "5">>
GeminiCatalogs == { <<>>, << GeminiDefault >>, << GeminiThinking, GeminiDefault >> }

\* ChatRequest.images / ChatMessage.images: absent, empty, one image
ImageLists == { None, <<>>, <<"i">> }

\* ChatRequest.history: absent, or the images of each earlier message
Histories ==
    { None } \cup UNION { [ 1..n -> ImageLists ] : n \in 0..MaxHistory }

Backends == { "openai", "gemini", "ollama", "local", "mock" }

\* TETHER_LLM_BACKEND in the environment: not set, or one of the values the
\* settings accept
Configured == { "unset" } \cup Backends

\* LLMSettings.tether_llm_backend: the configured value, or the default
tether_llm_backend(c) == IF c = "unset" THEN "ollama" ELSE c

\* get_llm_service(): the service class constructed, named by its service_type
get_llm_service(backend) ==
    CASE backend = "openai" -> "openai"
      [] backend = "gemini" -> "gemini"
      [] backend = "ollama" -> "ollama"
      [] backend = "local"  -> "local"
      [] OTHER              -> "mock"

VARIABLES
    service_type,       \* the adapter get_llm_service() constructed
    env,                \* installed: the backend's client package imports;
                        \* isfile: os.path.isfile(model_path)
    api_key,            \* self._api_key
    model,              \* self._model
    model_path,         \* self._model_path
    client,             \* self._client: 0 is None, else a handle
    llm,                \* self._llm: 0 is None, else a handle
    ready,              \* self._ready
    needs_key,          \* self._needs_key
    available_models,   \* self._available_models
    created,            \* handles constructed so far
    closed,             \* handles on which close()/aclose() has been called
    frame,              \* the bag of suspended coroutines' frames
    last                \* the step just taken: operation, outcome, details

vars == << service_type, env, api_key, model, model_path, client, llm, ready,
           needs_key, available_models, created, closed, frame, last >>

adapter == << api_key, model, model_path, client, llm, ready, needs_key,
              available_models >>

\* ------------------------------------------------------- accessors
HasClient == service_type \in { "openai", "gemini", "ollama" }

\* model_name property
model_name ==
    CASE service_type = "ollama" -> PyOr(model, <<"not-set">>)
      [] service_type = "local"  ->
            IF Truthy(model_path) THEN LastComponent(model_path) ELSE <<"unknown">>
      [] service_type = "mock"   -> <<"mock">>
      [] OTHER                   -> model

\* is_ready()
is_ready ==
    CASE service_type = "mock"  -> ready
      [] service_type = "local" -> ready /\ llm # 0
      [] OTHER                  -> ready /\ client # 0

\* needs_api_key property
needs_api_key == IF service_type \in { "openai", "gemini" } THEN needs_key ELSE FALSE

\* hasattr(llm_service, "set_api_key")
HasSetApiKey == service_type \in { "openai", "gemini" }

\* hasattr(llm_service, "chat")
HasChat == service_type \in { "openai", "gemini", "ollama" }

\* the handle complete/chat/stream test and use
Transport == IF service_type = "local" THEN llm ELSE client

\* ------------------------------------------------------- frames and events
\* A suspended coroutine: where it waits, the call it belongs to, and its
\* locals (the payload's model and think flag, the think argument, the requests sent,
\* the name or key asked for, whether a credential was awaited at the call, and
\* for a stream the number of lines that have arrived and the texts it has
\* yielded).
IdleFrame ==
    [ pc |-> "idle", op |-> "none", payload_model |-> None, payload_think |-> FALSE,
      think |-> FALSE, nreq |-> 0, name |-> None, awaited |-> FALSE,
      arrived |-> 0, yielded |-> <<>> ]

\* The record of one step: the operation, how it ended ("pending" while its
\* coroutine is suspended, "retry" when chat sends again), the backend requests
\* this step sent and the call has sent (nreq), and, per operation, the name or
\* key asked for, the model reported, the model and think flag sent, a note (the
\* response a chat step handled, or the branch initialize returned from), the
\* model before the step, the catalog a switch was checked against, the think
\* argument chat was called with, the words of the exception a load raised and
\* the thread the step's model load or inference ran on ("none" without one),
\* and for the mock the prompt and the text returned (by the template's mock
\* and by the package's), and for the construction the backend configured.
Event(op, outcome, sent) ==
    [ op |-> op, outcome |-> outcome, sent |-> sent, name |-> None,
      reported |-> None, used |-> None, think |-> FALSE, nreq |-> sent,
      reclosed |-> FALSE, warned |-> FALSE, awaited |-> FALSE, note |-> "none",
      before |-> None, catalog |-> <<>>, think_arg |-> FALSE, signal |-> {},
      ran |-> "none", prompt |-> <<>>, text |-> <<>>, package_text |-> <<>>,
      backend |-> "" ]

Out(e, outcome) == [ e EXCEPT !.outcome = outcome ]

\* the event of the call suspended in frame f
FrameEvent(f) ==
    [ Event(f.op, "pending", 0) EXCEPT
        !.name = f.name, !.awaited = f.awaited, !.used = f.payload_model,
        !.think = f.payload_think, !.think_arg = f.think, !.nreq = f.nreq ]

\* ------------------------------------------------------- construction
\* get_llm_service() and the services' __init__
Init ==
    /\ \E c \in Configured :
         /\ service_type = get_llm_service(tether_llm_backend(c))
         /\ last = [ Event("construct", "ok", 0) EXCEPT !.backend = c ]
    /\ env \in [ installed : IF service_type = "mock" THEN { TRUE } ELSE BOOLEAN,
                  isfile : IF service_type = "local" THEN BOOLEAN ELSE { TRUE } ]
    /\ api_key \in IF service_type \in { "openai", "gemini" } THEN { None, <<"k">> } ELSE { None }
    /\ model \in
         CASE service_type = "ollama" -> OllamaConfigured
           [] service_type = "openai" -> { OpenAIDefault }
           [] service_type = "gemini" -> { GeminiDefault }
           [] OTHER -> { None }
    /\ model_path \in IF service_type = "local" THEN { None, <<"d", "/", "m">> } ELSE { None }
    /\ client = 0
    /\ llm = 0
    /\ ready = FALSE
    /\ needs_key = FALSE
    /\ available_models = <<>>
    /\ created = 0
    /\ closed = {}
    /\ frame = EmptyBag

\* ------------------------------------------------------- discovery
\* str(e) of an exception: the library decides it, and it can be empty
Messages == { <<>>, <<"m">> }

\* status codes raise_for_status() rejects
StatusCodes == { "404", "500" }

\* What GET {url}/api/tags does: a 2xx body listing models, or an exception
\* (a body that is not the expected JSON raises inside the try as well).
\* The HTTPStatusError of raise_for_status() has the status code in its
\* response and in its message.
TagsOutcomes ==
    { [ kind |-> "ok", models |-> c, msg |-> <<>>, status |-> "200" ] : c \in Catalogs }
      \cup { [ kind |-> k, models |-> <<>>, msg |-> m, status |-> "" ] :
               k \in { "ConnectError", "TimeoutException", "Exception" },
               m \in Messages }
      \cup { [ kind |-> "HTTPStatusError", models |-> <<>>,
               msg |-> << "error '", c, "' for url ", "{url}" >>, status |-> c ] :
               c \in StatusCodes }

\* discover_ollama: every outcome becomes an OllamaDiscoveryResult
discover_ollama(t) ==
    CASE t.kind = "ok" ->
            [ available |-> TRUE, models |-> t.models, error |-> None ]
      [] t.kind = "ConnectError" ->
            [ available |-> FALSE, models |-> <<>>,
              error |-> << "Cannot connect to Ollama at ", "{url}",
                           ". Make sure Ollama is running (run 'ollama serve' or start the Ollama app)." >> ]
      [] t.kind = "TimeoutException" ->
            [ available |-> FALSE, models |-> <<>>,
              error |-> << "Connection to Ollama at ", "{url}",
                           " timed out. The server may be busy or unresponsive." >> ]
      [] t.kind = "HTTPStatusError" ->
            [ available |-> FALSE, models |-> <<>>,
              error |-> << "Ollama returned an error (HTTP ", t.status,
                           "). Check if Ollama is working correctly." >> ]
      [] OTHER ->
            [ available |-> FALSE, models |-> <<>>,
              error |-> <<"Unexpected error connecting to Ollama: ">> \o t.msg ]

\* discover_ollama of the tether package: ConnectError, then any Exception
package_discover_ollama(t) ==
    CASE t.kind = "ok" ->
            [ available |-> TRUE, models |-> t.models, error |-> None ]
      [] t.kind = "ConnectError" ->
            [ available |-> FALSE, models |-> <<>>,
              error |-> << "Cannot connect to Ollama at ", "{url}", ". Is it running?" >> ]
      [] OTHER ->
            [ available |-> FALSE, models |-> <<>>, error |-> t.msg ]

\* discover_gemini_models: the sorted list, or available=False
GeminiOutcomes ==
    { [ available |-> TRUE, models |-> c ] : c \in GeminiCatalogs }
      \cup { [ available |-> FALSE, models |-> <<>> ] }

\* ------------------------------------------------------- scheduling
\* The event loop runs one coroutine until its next await.  lifespan runs
\* initialize before the first request is served and cleanup after the last
\* (main.py), so these two start only when nothing is suspended, and no
\* request starts while initialize is suspended.
Suspended == BagToSet(frame)

Quiet == frame = EmptyBag

LifecycleBusy == \E f \in Suspended : f.op = "initialize"

\* a coroutine can be started and parked at an await
CanSuspend == BagCardinality(frame) < NumProcs

Suspend(f) == frame' = frame (+) SetToBag({ f })

Resume(f) == frame' = frame (-) SetToBag({ f })

\* ------------------------------------------------------- initialize
\* the frame of an initialize suspended at its await
InitFrame(e) ==
    [ IdleFrame EXCEPT !.pc = "init_wait", !.op = e.op, !.name = e.name,
                       !.awaited = e.awaited ]

\* MockLLMService.initialize
MockInitialize(e) ==
    /\ ready' = TRUE
    /\ last' = Out(e, "ok")
    /\ UNCHANGED << model, client, llm, needs_key, available_models, created, closed, frame >>

\* OpenAIService.initialize, run with credential key
OpenAIInitialize(key, e) ==
    IF ~Truthy(key)
    THEN /\ needs_key' = TRUE
         /\ last' = [ Out(e, "ok") EXCEPT !.note = "no_credential" ]
         /\ UNCHANGED << model, client, llm, ready, available_models, created, closed, frame >>
    ELSE /\ needs_key' = FALSE
         /\ IF env.installed
            THEN /\ created < MaxHandles
                 /\ created' = created + 1
                 /\ client' = created + 1
                 /\ ready' = TRUE
                 /\ last' = Out(e, "ok")
            ELSE /\ last' = Out(e, "ImportError")
                 /\ UNCHANGED << client, ready, created >>
         /\ UNCHANGED << model, llm, available_models, closed, frame >>

\* GeminiService.initialize up to its await of discover_gemini_models
GeminiInitialize(key, e) ==
    IF ~Truthy(key)
    THEN /\ needs_key' = TRUE
         /\ last' = [ Out(e, "ok") EXCEPT !.note = "no_credential" ]
         /\ UNCHANGED << model, client, llm, ready, available_models, created, closed, frame >>
    ELSE /\ needs_key' = FALSE
         /\ IF env.installed
            THEN /\ created < MaxHandles
                 /\ CanSuspend
                 /\ created' = created + 1
                 /\ client' = created + 1
                 /\ Suspend(InitFrame(e))
                 /\ last' = Out(e, "pending")
            ELSE /\ last' = Out(e, "ImportError")
                 /\ UNCHANGED << client, created, frame >>
         /\ UNCHANGED << model, llm, ready, available_models, closed >>

\* GeminiService.initialize from the discovery result on
GeminiInitializeEnd(f, d) ==
    /\ available_models' = IF d.available THEN d.models ELSE << model >>
    /\ ready' = TRUE
    /\ Resume(f)
    /\ last' = Out(FrameEvent(f), "ok")
    /\ UNCHANGED << model, client, llm, needs_key, created, closed >>

\* OllamaService.initialize up to its await of discover_ollama
OllamaInitialize(e) ==
    IF env.installed
    THEN /\ created < MaxHandles
         /\ CanSuspend
         /\ created' = created + 1
         /\ client' = created + 1
         /\ Suspend(InitFrame(e))
         /\ last' = Out(e, "pending")
         /\ UNCHANGED << model, llm, ready, needs_key, available_models, closed >>
    ELSE /\ last' = Out(e, "ImportError")
         /\ UNCHANGED << model, client, llm, ready, needs_key, available_models,
                         created, closed, frame >>

\* what an initialize that resumed from discovery reports: the model it found
\* configured, the catalog, and whether discovery was available
OllamaInitEvent(f, d) ==
    [ FrameEvent(f) EXCEPT !.before = model_name, !.catalog = d.models,
                           !.note = IF d.available THEN "none" ELSE "unavailable" ]

\* An initialize that becomes ready without choosing a model.
OllamaInitializeEndNoSelect(f, d) ==
    /\ Resume(f)
    /\ UNCHANGED << client, llm, needs_key, created, closed >>
    /\ IF ~d.available
       THEN /\ last' = Out(OllamaInitEvent(f, d), "RuntimeError:unreachable")
            /\ UNCHANGED << model, ready, available_models >>
       ELSE /\ available_models' = d.models
            /\ IF ~Truthy(model)
               THEN /\ ready' = TRUE
                    /\ last' = Out(OllamaInitEvent(f, d), "ok")
                    /\ UNCHANGED model
               ELSE /\ ready' = TRUE
                    /\ last' = [ Out(OllamaInitEvent(f, d), "ok") EXCEPT
                                   !.warned = ~ModelFound(model, d.models) ]
                    /\ UNCHANGED model

\* self._available_models[-1]
AutoSelectedLast(models) == models[Len(models)]

\* self._model = self._available_models[0]
AutoSelected(models) == models[1]

\* An initialize that refuses a configured model the catalog lacks.
OllamaInitializeEndStrict(f, d) ==
    /\ Resume(f)
    /\ UNCHANGED << client, llm, needs_key, created, closed >>
    /\ IF ~d.available
       THEN /\ last' = Out(OllamaInitEvent(f, d), "RuntimeError:unreachable")
            /\ UNCHANGED << model, ready, available_models >>
       ELSE /\ available_models' = d.models
            /\ IF ~Truthy(model)
               THEN IF d.models # <<>>
                    THEN /\ model' = AutoSelected(d.models)
                         /\ ready' = TRUE
                         /\ last' = Out(OllamaInitEvent(f, d), "ok")
                    ELSE /\ last' = Out(OllamaInitEvent(f, d), "RuntimeError:no_models")
                         /\ UNCHANGED << model, ready >>
               ELSE IF ModelFound(model, d.models)
                    THEN /\ ready' = TRUE
                         /\ last' = Out(OllamaInitEvent(f, d), "ok")
                         /\ UNCHANGED model
                    ELSE /\ last' = Out(OllamaInitEvent(f, d), "RuntimeError:not_found")
                         /\ UNCHANGED << model, ready >>

\* OllamaService.initialize from the discovery result on
OllamaInitializeEnd(f, d) ==
    /\ Resume(f)
    /\ UNCHANGED << client, llm, needs_key, created, closed >>
    /\ IF ~d.available
       THEN /\ last' = Out(OllamaInitEvent(f, d), "RuntimeError:unreachable")
            /\ UNCHANGED << model, ready, available_models >>
       ELSE /\ available_models' = d.models
            /\ IF ~Truthy(model)
               THEN IF d.models # <<>>
                    THEN /\ model' = AutoSelected(d.models)
                         /\ ready' = TRUE
                         /\ last' = Out(OllamaInitEvent(f, d), "ok")
                    ELSE /\ last' = Out(OllamaInitEvent(f, d), "RuntimeError:no_models")
                         /\ UNCHANGED << model, ready >>
               ELSE /\ ready' = TRUE
                    /\ last' = [ Out(OllamaInitEvent(f, d), "ok") EXCEPT
                                   !.warned = ~ModelFound(model, d.models) ]
                    /\ UNCHANGED model

\* What Llama(model_path=...) does: a model object, or an exception whose
\* message holds some of the words _load_model looks for.
LoadOutcomes ==
    { [ ok |-> TRUE, words |-> {} ] }
      \cup { [ ok |-> FALSE, words |-> w ] : w \in SUBSET { "gguf", "magic", "memory", "alloc" } }

\* the RuntimeError _load_model raises for a failed load
LoadError(words) ==
    IF "gguf" \in words \/ "magic" \in words THEN "RuntimeError:invalid_format"
    ELSE IF "memory" \in words \/ "alloc" \in words THEN "RuntimeError:not_enough_memory"
    ELSE "RuntimeError:load_failed"

\* LocalLLMService.initialize up to run_in_executor(_load_model)
LocalInitialize(e) ==
    /\ UNCHANGED << model, client, llm, ready, needs_key, available_models, created, closed >>
    /\ IF ~Truthy(model_path)
       THEN last' = Out(e, "RuntimeError:no_model_path") /\ UNCHANGED frame
       ELSE IF ~env.isfile
       THEN last' = Out(e, "RuntimeError:file_not_found") /\ UNCHANGED frame
       ELSE IF ~env.installed
       THEN last' = Out(e, "ImportError") /\ UNCHANGED frame
       ELSE /\ CanSuspend
            /\ Suspend(InitFrame(e))
            /\ last' = Out(e, "pending")

\* LocalLLMService._load_model, on the executor
LocalLoadModel(f, l) ==
    /\ Resume(f)
    /\ UNCHANGED << model, client, needs_key, available_models, closed >>
    /\ IF l.ok
       THEN /\ created < MaxHandles
            /\ created' = created + 1
            /\ llm' = created + 1
            /\ ready' = TRUE
            /\ last' = [ Out(FrameEvent(f), "ok") EXCEPT !.ran = "worker" ]
       ELSE /\ last' = [ Out(FrameEvent(f), LoadError(l.words)) EXCEPT
                           !.signal = l.words, !.ran = "worker" ]
            /\ UNCHANGED << llm, ready, created >>

\* initialize() of the constructed adapter, called by lifespan or by an owner
Initialize ==
    /\ Quiet
    /\ UNCHANGED << service_type, env, api_key, model_path >>
    /\ LET e == Event("initialize", "ok", 0) IN
       CASE service_type = "mock"   -> MockInitialize(e)
         [] service_type = "openai" -> OpenAIInitialize(api_key, e)
         [] service_type = "gemini" -> GeminiInitialize(api_key, e)
         [] service_type = "ollama" -> OllamaInitialize(e)
         [] OTHER                   -> LocalInitialize(e)

\* the rest of a suspended initialize
InitializeEnd ==
    \E f \in Suspended :
      /\ f.pc = "init_wait"
      /\ UNCHANGED << service_type, env, api_key, model_path >>
      /\ CASE service_type = "gemini" -> \E d \in GeminiOutcomes : GeminiInitializeEnd(f, d)
           [] service_type = "ollama" ->
                \E t \in TagsOutcomes : OllamaInitializeEnd(f, discover_ollama(t))
           [] OTHER -> \E l \in LoadOutcomes : LocalLoadModel(f, l)

\* ------------------------------------------------------- cleanup
\* A cleanup that drops the handle and leaves the ready flag alone.
CleanupHandleOnly ==
    /\ Quiet
    /\ client' = 0 /\ llm' = 0
    /\ last' = Event("cleanup", "ok", 0)
    /\ UNCHANGED << service_type, env, api_key, model, model_path, ready, needs_key,
                    available_models, created, closed, frame >>

\* cleanup() of the constructed adapter
Cleanup ==
    /\ Quiet
    /\ ready' = FALSE
    /\ UNCHANGED << service_type, env, api_key, model, model_path, needs_key,
                    available_models, created, frame >>
    /\ CASE service_type \in { "openai", "ollama" } ->
              /\ closed' = IF client # 0 THEN closed \cup { client } ELSE closed
              /\ last' = [ Event("cleanup", "ok", 0) EXCEPT !.reclosed = client \in closed ]
              /\ UNCHANGED << client, llm >>
         [] service_type = "gemini" ->
              /\ client' = 0
              /\ last' = Event("cleanup", "ok", 0)
              /\ UNCHANGED << llm, closed >>
         [] service_type = "local" ->
              /\ llm' = 0
              /\ last' = Event("cleanup", "ok", 0)
              /\ UNCHANGED << client, closed >>
         [] OTHER ->
              /\ last' = Event("cleanup", "ok", 0)
              /\ UNCHANGED << client, llm, closed >>

\* ------------------------------------------------------- the backend
\* What the backend answers to a generation or chat request: a 2xx response,
\* a non-2xx response, or no response (the transport raises).  Only a request
\* that carries the think flag can be refused because of it.
Responses(with_think) ==
    { "ok", "status_error", "exception" }
      \cup IF with_think THEN { "think_rejected" } ELSE {}

\* response.is_success
is_success(r) == r = "ok"

\* The exception a completed exchange ends in, "ok" when there is none:
\* raise_for_status() on a non-2xx response, the transport's own exception.
Raised(r) ==
    CASE r = "ok"        -> "ok"
      [] r = "exception" -> "TransportError"
      [] OTHER           -> "UpstreamError"

\* is_thinking_model = "2.5" in self._model
IsThinkingModel(m) ==
    \E i \in 1..(Len(m) - 2) : m[i] = "2" /\ m[i + 1] = "." /\ m[i + 2] = "5"

\* ------------------------------------------------------- complete / stream
\* a prompt of n characters
Xs(n) == [ i \in 1..n |-> "x" ]

\* prompts: empty, short, of 50 characters, and two longer ones that differ
\* after the 50th
Prompts == { <<>>, << "p" >>, Xs(50), Xs(51), Xs(50) \o << "y" >> }

Temperatures == { "0.0", "0.7" }

MaxTokensArgs == { "None", "16" }

\* prompt[:50]
Head50(prompt) == SubSeq(prompt, 1, IF Len(prompt) < 50 THEN Len(prompt) ELSE 50)

\* a mock whose text depends on the sampling temperature
mock_complete_sampled(prompt, temperature, max_tokens) ==
    << "This is a mock response to: " >> \o Head50(prompt) \o << "...", temperature >>

\* MockLLMService.complete of the template
mock_complete(prompt, temperature, max_tokens) ==
    << "This is a mock response to: " >> \o Head50(prompt) \o << "..." >>

\* MockLLMService() of the package keeps the response it was constructed with
MockResponse == << "This is a mock response." >>

\* MockLLMService.complete of the package
package_mock_complete(prompt, temperature, max_tokens) == MockResponse

\* The body shared by complete() and the package's stream() of the services
\* that talk to a backend, and of the mock: the guard on the handle, then one
\* request built from self._model.
Generate(op, r) ==
    /\ ~LifecycleBusy
    /\ service_type # "local"
    /\ UNCHANGED << service_type, env, adapter, created, closed, frame >>
    /\ CASE service_type = "mock" ->
              \E p \in Prompts, t \in Temperatures, k \in MaxTokensArgs :
                last' = [ Event(op, "ok", 0) EXCEPT
                            !.prompt = p,
                            !.text = mock_complete(p, t, k),
                            !.package_text = package_mock_complete(p, t, k) ]
         [] OTHER ->
              IF client = 0
              THEN last' = Event(op, "NotReady", 0)
              ELSE IF client \in closed
              THEN last' = Event(op, "TransportError", 0)
              ELSE last' = Event(op, Raised(r), 1)

\* LocalLLMService.complete / stream up to the await of run_in_executor: the
\* guard on the model, then the call is handed to the default executor
LocalGenerate(op) ==
    /\ ~LifecycleBusy
    /\ service_type = "local"
    /\ UNCHANGED << service_type, env, adapter, created, closed >>
    /\ IF llm = 0
       THEN last' = Event(op, "NotReady", 0) /\ UNCHANGED frame
       ELSE /\ CanSuspend
            /\ Suspend([ IdleFrame EXCEPT !.pc = "executor", !.op = op ])
            /\ last' = Event(op, "pending", 0)

\* LLMService.complete(prompt)
Complete ==
    \/ \E r \in Responses(FALSE) : Generate("complete", r)
    \/ LocalGenerate("complete")

\* LLMService.stream(prompt) (tether-python; the template services have none),
\* as one call; OllamaStream and the actions after it step through its lines
Stream ==
    /\ service_type # "gemini"
    /\ \/ \E r \in Responses(FALSE) : Generate("stream", r)
       \/ LocalGenerate("stream")

\* what a call of the loaded model does: a result, or an exception
InferenceOutcomes == { "ok", "InferenceError" }

\* the event of a step of the local call suspended in f, and where it ran
LocalEvent(f, outcome, sent, ran) ==
    [ FrameEvent(f) EXCEPT !.outcome = outcome, !.sent = sent, !.nreq = 1, !.ran = ran ]

\* LocalLLMService.complete: the lambda runs self._llm(prompt, ...) on a worker
\* of the executor, and the coroutine returns the text
LocalCompleteEnd ==
    \E f \in Suspended : \E r \in InferenceOutcomes :
      /\ f.pc = "executor" /\ f.op = "complete"
      /\ Resume(f)
      /\ last' = LocalEvent(f, IF llm = 0 THEN "TypeError" ELSE r, 1, "worker")
      /\ UNCHANGED << service_type, env, adapter, created, closed >>

\* LocalLLMService.stream: generate() runs on a worker and returns the
\* generator of self._llm(..., stream=True); the coroutine goes on to iterate
LocalStreamGenerate ==
    \E f \in Suspended : \E r \in InferenceOutcomes :
      /\ f.pc = "executor" /\ f.op = "stream"
      /\ LET outcome == IF llm = 0 THEN "TypeError" ELSE r IN
         /\ frame' = IF outcome = "ok"
                     THEN (frame (-) SetToBag({ f }))
                            (+) SetToBag({ [ f EXCEPT !.pc = "iterating" ] })
                     ELSE frame (-) SetToBag({ f })
         /\ last' = LocalEvent(f, IF outcome = "ok" THEN "pending" ELSE outcome, 1, "worker")
      /\ UNCHANGED << service_type, env, adapter, created, closed >>

\* LocalLLMService.stream: `for chunk in sync_gen` in the coroutine itself; each
\* turn of the loop has the model produce the next chunk, which is yielded, and
\* the loop ends when the generator is exhausted or raises
LocalStreamNext ==
    \E f \in Suspended : \E r \in { "chunk", "ok", "InferenceError" } :
      /\ f.pc = "iterating"
      /\ frame' = IF r = "chunk" THEN frame ELSE frame (-) SetToBag({ f })
      /\ last' = LocalEvent(f, r, 0, "loop")
      /\ UNCHANGED << service_type, env, adapter, created, closed >>

\* ------------------------------------------------------- OllamaService.stream
\* A line of the streamed body, as response.aiter_lines() gives it: empty, not
\* JSON, a JSON number, a JSON object without "response", or one with it.
Lines ==
    { [ kind |-> k, response |-> None ] : k \in { "empty", "invalid", "number", "object" } }
      \cup { [ kind |-> "object", response |-> t ] : t \in { << "x" >>, << "y" >> } }

\* bool(line)
NonEmpty(l) == l.kind # "empty"

\* json.loads(line) raises JSONDecodeError
JSONDecodeError(l) == l.kind = "invalid"

\* `"response" in data` raises TypeError on a number
InRaises(l) == l.kind = "number"

\* "response" in data
HasResponse(l) == l.kind = "object" /\ l.response # None

\* the record of a step of the stream suspended in f: the line handled, the
\* text yielded to the consumer (None when nothing is), the number of lines
\* arrived and the texts yielded so far, and whether the response is still open
StreamEvent(f, outcome, sent, line, item) ==
    [ op |-> "stream", outcome |-> outcome, sent |-> sent, used |-> f.payload_model,
      line |-> line, item |-> item, arrived |-> f.arrived, yielded |-> f.yielded,
      open |-> outcome \in { "pending", "yield", "skip" } ]

NoLine == [ kind |-> "none", response |-> None ]

\* stream() up to self._client.stream("POST", "/api/generate", ...): the guard
\* on the client, the payload from self._model, the request sent
OllamaStream ==
    /\ ~LifecycleBusy
    /\ service_type = "ollama"
    /\ UNCHANGED << service_type, env, adapter, created, closed >>
    /\ LET f == [ IdleFrame EXCEPT !.pc = "stream_wait", !.op = "stream",
                                   !.payload_model = model, !.nreq = 1 ] IN
       IF client = 0
       THEN last' = StreamEvent(f, "NotReady", 0, NoLine, None) /\ UNCHANGED frame
       ELSE IF client \in closed
       THEN last' = StreamEvent(f, "TransportError", 0, NoLine, None) /\ UNCHANGED frame
       ELSE /\ CanSuspend
            /\ Suspend(f)
            /\ last' = StreamEvent(f, "pending", 1, NoLine, None)

\* async with ... as response: response.raise_for_status()
OllamaStreamResponse ==
    \E f \in Suspended : \E r \in Responses(FALSE) :
      /\ f.pc = "stream_wait"
      /\ UNCHANGED << service_type, env, adapter, created, closed >>
      /\ IF is_success(r)
         THEN /\ frame' = (frame (-) SetToBag({ f }))
                            (+) SetToBag({ [ f EXCEPT !.pc = "streaming" ] })
              /\ last' = StreamEvent(f, "pending", 0, NoLine, None)
         ELSE /\ Resume(f)
              /\ last' = StreamEvent(f, Raised(r), 0, NoLine, None)

\* one turn of `async for line in response.aiter_lines()` on line l
StreamLine(f, l) ==
    LET g == [ f EXCEPT !.arrived = f.arrived + 1 ] IN
    IF ~NonEmpty(l)
    THEN /\ frame' = (frame (-) SetToBag({ f })) (+) SetToBag({ g })
         /\ last' = StreamEvent(g, "skip", 0, l, None)
    ELSE IF JSONDecodeError(l)
    THEN /\ frame' = (frame (-) SetToBag({ f })) (+) SetToBag({ g })
         /\ last' = StreamEvent(g, "skip", 0, l, None)
    ELSE IF InRaises(l)
    THEN /\ Resume(f)
         /\ last' = StreamEvent(g, "TypeError", 0, l, None)
    ELSE IF HasResponse(l)
    THEN LET h == [ g EXCEPT !.yielded = Append(g.yielded, l.response) ] IN
         /\ frame' = (frame (-) SetToBag({ f })) (+) SetToBag({ h })
         /\ last' = StreamEvent(h, "yield", 0, l, l.response)
    ELSE /\ frame' = (frame (-) SetToBag({ f })) (+) SetToBag({ g })
         /\ last' = StreamEvent(g, "skip", 0, l, None)

\* the next line of the body arrives
OllamaStreamLine ==
    \E f \in Suspended : \E l \in Lines :
      /\ f.pc = "streaming"
      /\ f.arrived < MaxLines
      /\ UNCHANGED << service_type, env, adapter, created, closed >>
      /\ StreamLine(f, l)

\* aiter_lines() is exhausted, or the transport raises: the async with block
\* is left and the response closed
OllamaStreamEnd ==
    \E f \in Suspended : \E r \in { "ok", "exception" } :
      /\ f.pc = "streaming"
      /\ UNCHANGED << service_type, env, adapter, created, closed >>
      /\ Resume(f)
      /\ last' = StreamEvent(f, Raised(r), 0, NoLine, None)

\* The consumer stops reading: aclose() on the generator, called by the
\* consumer or by the loop's finalizer hook, raises GeneratorExit at the yield
\* where the generator is suspended, and the async with block closes the
\* response on the way out.
OllamaStreamAbandon ==
    \E f \in Suspended :
      /\ f.pc = "streaming"
      /\ f.yielded # <<>>
      /\ UNCHANGED << service_type, env, adapter, created, closed >>
      /\ Resume(f)
      /\ last' = StreamEvent(f, "abandoned", 0, NoLine, None)

\* ------------------------------------------------------- chat
\* The think flag the first request carries: Ollama's payload["think"],
\* Gemini's thinking_config.
PayloadThink(think) ==
    CASE service_type = "ollama" -> think
      [] service_type = "gemini" -> think /\ IsThinkingModel(model)
      [] OTHER                   -> FALSE

\* chat(messages, think=think) up to the await of its first request
ChatStart(think) ==
    /\ UNCHANGED << service_type, env, adapter, created, closed >>
    /\ IF client = 0
       THEN last' = Event("chat", "NotReady", 0) /\ UNCHANGED frame
       ELSE IF client \in closed
       THEN last' = Event("chat", "TransportError", 0) /\ UNCHANGED frame
       ELSE LET f == [ IdleFrame EXCEPT !.pc = "chat_wait", !.op = "chat",
                                        !.payload_model = model,
                                        !.payload_think = PayloadThink(think),
                                        !.think = think, !.nreq = 1 ] IN
            /\ CanSuspend
            /\ Suspend(f)
            /\ last' = [ FrameEvent(f) EXCEPT !.sent = 1 ]

\* the adapter's chat called directly
Chat ==
    /\ ~LifecycleBusy
    /\ HasChat
    /\ \E think \in BOOLEAN : ChatStart(think)

\* A second post that leaves the think flag in the payload.
ChatRetryKeepsThink(f, r) ==
    /\ UNCHANGED << service_type, env, adapter, created, closed >>
    /\ LET g == [ f EXCEPT !.nreq = f.nreq + 1 ] IN
       /\ frame' = (frame (-) SetToBag({ f })) (+) SetToBag({ g })
       /\ last' = [ FrameEvent(g) EXCEPT !.outcome = "retry", !.sent = 1, !.note = r,
                                         !.before = f.payload_model ]

\* A second post whose payload is built again from self._model.
ChatRetryRebuilt(f, r) ==
    /\ UNCHANGED << service_type, env, adapter, created, closed >>
    /\ IF client \in closed
       THEN /\ Resume(f)
            /\ last' = [ Out(FrameEvent(f), "TransportError") EXCEPT !.note = r ]
       ELSE LET g == [ f EXCEPT !.payload_model = model, !.payload_think = FALSE,
                                !.nreq = f.nreq + 1 ] IN
            /\ frame' = (frame (-) SetToBag({ f })) (+) SetToBag({ g })
            /\ last' = [ FrameEvent(g) EXCEPT !.outcome = "retry", !.sent = 1, !.note = r,
                                              !.before = f.payload_model ]

\* OllamaService.chat: payload.pop("think") and the second post
ChatRetry(f, r) ==
    /\ UNCHANGED << service_type, env, adapter, created, closed >>
    /\ IF client \in closed
       THEN /\ Resume(f)
            /\ last' = [ Out(FrameEvent(f), "TransportError") EXCEPT !.note = r ]
       ELSE LET g == [ f EXCEPT !.payload_think = FALSE, !.nreq = f.nreq + 1 ] IN
            /\ frame' = (frame (-) SetToBag({ f })) (+) SetToBag({ g })
            /\ last' = [ FrameEvent(g) EXCEPT !.outcome = "retry", !.sent = 1, !.note = r,
                                              !.before = f.payload_model ]

\* chat() from the response on: the result, or the error raised.  reported is
\* llm_service.model_name as POST /chat reads it for ChatResponse.model.
ChatFinish(f, r) ==
    /\ UNCHANGED << service_type, env, adapter, created, closed >>
    /\ Resume(f)
    /\ last' = [ FrameEvent(f) EXCEPT
                   !.outcome = Raised(r), !.note = r,
                   !.reported = IF r = "ok" THEN model_name ELSE None ]

\* if not response.is_success and think
RetryDue(f, r) == r # "exception" /\ ~is_success(r) /\ f.think /\ f.nreq = 1

\* The backend answers the request a chat is awaiting.
ChatResponse ==
    \E f \in Suspended :
      /\ f.pc = "chat_wait"
      /\ \E r \in Responses(f.payload_think) :
           IF service_type = "ollama" /\ RetryDue(f, r)
           THEN ChatRetry(f, r)
           ELSE ChatFinish(f, r)

\* A check for images that looks at the current message only.
HasImagesCurrentOnly(images, history) == Truthy(images)

\* has_images = body.images or any(msg.images for msg in (body.history or []) if msg.images)
HasImages(images, history) ==
    \/ Truthy(images)
    \/ LET h == PyOr(history, <<>>) IN \E i \in 1..Len(h) : Truthy(h[i])

\* use_thinking = False if has_images else (body.think if body.think is not None else True)
UseThinking(think, has_images) ==
    IF has_images THEN FALSE ELSE IF think = "None" THEN TRUE ELSE think = "True"

\* ChatRequest: think, images and, of history, each message's images
ChatBodies ==
    [ think : { "None", "True", "False" }, images : ImageLists, history : Histories ]

\* the think argument POST /chat gives llm_service.chat for a request body
DispatchThink(body) ==
    UseThinking(body.think, HasImages(body.images, body.history))

\* the think arguments that the request bodies lead to
DispatchedThinks == { DispatchThink(body) : body \in ChatBodies }

\* POST /chat up to the adapter call
RouteChat ==
    /\ ~LifecycleBusy
    /\ IF ~is_ready
       THEN /\ last' = Event("route_chat", "http_503", 0)
            /\ UNCHANGED << service_type, env, adapter, created, closed, frame >>
       ELSE IF HasChat
       THEN \E think \in DispatchedThinks : ChatStart(think)
       ELSE /\ UNCHANGED << service_type, env, adapter, created, closed, frame >>
            /\ last' = [ Event("route_chat", "ok", IF service_type = "mock" THEN 0 ELSE 1)
                           EXCEPT !.reported = model_name ]

\* ------------------------------------------------------- switch_model
SwitchNames ==
    IF service_type = "gemini"
    THEN { GeminiDefault, GeminiThinking, <<"c">>, <<>> }
    ELSE RequestNames

\* POST /models/switch up to the await of discover_ollama
RouteSwitchModel ==
    /\ ~LifecycleBusy
    /\ UNCHANGED << service_type, env, api_key, model_path, client, llm, ready,
                    needs_key, available_models, created, closed >>
    /\ \E name \in SwitchNames :
         LET e == [ Event("switch_model", "ok", 0) EXCEPT !.name = name ] IN
         IF ~is_ready
         THEN last' = Out(e, "http_503:not_ready") /\ UNCHANGED << model, frame >>
         ELSE CASE service_type = "ollama" ->
                     /\ CanSuspend
                     /\ Suspend([ IdleFrame EXCEPT !.pc = "switch_wait",
                                                   !.op = "switch_model", !.name = name ])
                     /\ last' = [ Out(e, "pending") EXCEPT !.sent = 1 ]
                     /\ UNCHANGED model
                [] service_type = "gemini" ->
                     IF ~InList(name, available_models)
                     THEN last' = Out(e, "http_404") /\ UNCHANGED << model, frame >>
                     ELSE model' = name /\ last' = e /\ UNCHANGED frame
                [] OTHER ->
                     last' = Out(e, "http_400:unsupported") /\ UNCHANGED << model, frame >>

\* the HTTPException switch_model raises for an outcome that is a failure
SwitchException(outcome) ==
    CASE outcome = "http_503:not_ready" ->
            [ status_code |-> 503, detail |-> << "LLM service not ready" >> ]
      [] outcome = "http_503:unavailable" ->
            [ status_code |-> 503, detail |-> << "Ollama not available" >> ]
      [] outcome = "http_404" ->
            [ status_code |-> 404, detail |-> << "Model '", "{model}", "' not found. Available: " >> ]
      [] outcome = "http_400:unsupported" ->
            [ status_code |-> 400,
              detail |-> << "Backend '", service_type, "' does not support runtime model switching" >> ]

\* A switch that does not look at discovery.available.
SwitchModelEndUnchecked(f, d) ==
    /\ UNCHANGED << service_type, env, api_key, model_path, client, llm, ready,
                    needs_key, available_models, created, closed >>
    /\ Resume(f)
    /\ LET e == [ FrameEvent(f) EXCEPT !.before = model_name, !.catalog = d.models,
                                       !.note = IF d.available THEN "none" ELSE "unavailable" ] IN
       IF ~ModelFound(f.name, d.models)
       THEN last' = Out(e, "http_404") /\ UNCHANGED model
       ELSE model' = f.name /\ last' = Out(e, "ok")

\* A switch that also keeps the catalog it was checked against.
SwitchModelEndRefresh(f, d) ==
    /\ UNCHANGED << service_type, env, api_key, model_path, client, llm, ready,
                    needs_key, created, closed >>
    /\ Resume(f)
    /\ LET e == [ FrameEvent(f) EXCEPT !.before = model_name, !.catalog = d.models,
                                       !.note = IF d.available THEN "none" ELSE "unavailable" ] IN
       IF ~d.available
       THEN last' = Out(e, "http_503:unavailable") /\ UNCHANGED << model, available_models >>
       ELSE IF ~ModelFound(f.name, d.models)
       THEN last' = Out(e, "http_404") /\ UNCHANGED << model, available_models >>
       ELSE model' = f.name /\ available_models' = d.models /\ last' = Out(e, "ok")

\* POST /models/switch from the discovery result on
SwitchModelEnd(f, d) ==
    /\ UNCHANGED << service_type, env, api_key, model_path, client, llm, ready,
                    needs_key, available_models, created, closed >>
    /\ Resume(f)
    /\ LET e == [ FrameEvent(f) EXCEPT !.before = model_name, !.catalog = d.models,
                                       !.note = IF d.available THEN "none" ELSE "unavailable" ] IN
       IF ~d.available
       THEN last' = Out(e, "http_503:unavailable") /\ UNCHANGED model
       ELSE IF ~ModelFound(f.name, d.models)
       THEN last' = Out(e, "http_404") /\ UNCHANGED model
       ELSE model' = f.name /\ last' = Out(e, "ok")

\* discover_ollama(get_ollama_base_url()) answers a suspended switch
SwitchModelResume ==
    \E f \in Suspended :
      /\ f.pc = "switch_wait"
      /\ \E t \in TagsOutcomes : SwitchModelEnd(f, discover_ollama(t))

\* ------------------------------------------------------- set_api_key
\* A handler that stores the key on any adapter and reports success.
SetApiKeyStored(e) ==
    /\ api_key' = e.name
    /\ last' = Out(e, "ok")
    /\ UNCHANGED << model, model_path, client, llm, ready, needs_key, available_models,
                    created, closed, frame >>

\* if not hasattr(llm_service, "set_api_key"): 400 naming service_type
SetApiKeyUnsupported(e) ==
    /\ last' = [ Out(e, "http_400:unsupported") EXCEPT !.note = service_type ]
    /\ UNCHANGED << adapter, created, closed, frame >>

\* POST /api-key: llm_service.set_api_key(body.api_key), exceptions caught
RouteSetApiKey ==
    /\ ~LifecycleBusy
    /\ UNCHANGED << service_type, env, model_path >>
    /\ \E key \in ApiKeys :
         LET e == [ Event("set_api_key", "ok", 0) EXCEPT
                      !.name = key, !.awaited = needs_api_key /\ ~is_ready ] IN
         CASE service_type = "openai" -> api_key' = key /\ OpenAIInitialize(key, e)
           [] service_type = "gemini" -> api_key' = key /\ GeminiInitialize(key, e)
           [] OTHER -> SetApiKeyUnsupported(e)

Next ==
    \/ Initialize
    \/ InitializeEnd
    \/ Cleanup
    \/ Complete
    \/ Stream
    \/ LocalCompleteEnd
    \/ LocalStreamGenerate
    \/ LocalStreamNext
    \/ Chat
    \/ ChatResponse
    \/ RouteChat
    \/ RouteSwitchModel
    \/ SwitchModelResume
    \/ RouteSetApiKey

Spec == Init /\ [][Next]_vars

\* ------------------------------------------------------- the application
\* The adapter as lifespan drives it: get_llm_service(), then initialize;
\* requests are served once the startup has returned; cleanup at shutdown,
\* after the last request.  Here initialize is called by lifespan alone, so
\* the step just taken tells where the application is.
Starting == last.op = "construct"

StartupPending == last.op = "initialize" /\ last.outcome = "pending"

\* initialize raised: lifespan leaves before its yield and the server exits
StartupFailed == last.op = "initialize" /\ last.outcome \notin { "ok", "pending" }

Stopped == last.op = "cleanup"

Serving == ~Starting /\ ~StartupPending /\ ~StartupFailed /\ ~Stopped

\* lifespan: llm_service = get_llm_service(); await llm_service.initialize()
Startup == Starting /\ Initialize

\* a request, or the next step of one, while the application serves
Serve ==
    /\ Serving
    /\ \/ Complete
       \/ Stream
       \/ LocalCompleteEnd
       \/ LocalStreamGenerate
       \/ LocalStreamNext
       \/ Chat
       \/ ChatResponse
       \/ RouteChat
       \/ RouteSwitchModel
       \/ SwitchModelResume
       \/ RouteSetApiKey

\* lifespan after its yield: await llm_service.cleanup()
Shutdown == Serving /\ Cleanup

LifeNext ==
    \/ Startup
    \/ InitializeEnd
    \/ Serve
    \/ Shutdown

\* Every awaited call returns or raises, so that again and again no request is
\* in progress, and the server is stopped at some time: it stops when no
\* request is in progress.
LifeFairness ==
    /\ WF_vars(InitializeEnd)
    /\ []<>Quiet
    /\ SF_vars(Shutdown)

LifeSpec == Init /\ [][LifeNext]_vars /\ LifeFairness

\* ------------------------------------------------------- streaming
\* The local-daemon adapter of the package with its stream stepped through
\* line by line, under one consumer: it calls stream again once the stream it
\* was reading has ended or it has abandoned it.
StreamInit == Init /\ service_type = "ollama"

NotStreaming == \A f \in Suspended : f.op # "stream"

StreamCall == NotStreaming /\ OllamaStream

StreamNext ==
    \/ Initialize
    \/ InitializeEnd
    \/ Cleanup
    \/ StreamCall
    \/ OllamaStreamResponse
    \/ OllamaStreamLine
    \/ OllamaStreamEnd
    \/ OllamaStreamAbandon

StreamSpec == StreamInit /\ [][StreamNext]_vars

\* ------------------------------------------------------- no model configured
\* The local-daemon adapter constructed with no model (OllamaService() with
\* TETHER_OLLAMA_MODEL unset), then initialized, switched and cleaned up.
UnconfiguredInit == Init /\ service_type = "ollama" /\ model = None

UnconfiguredNext ==
    \/ Initialize
    \/ InitializeEnd
    \/ Cleanup
    \/ RouteSwitchModel
    \/ SwitchModelResume

UnconfiguredSpec == UnconfiguredInit /\ [][UnconfiguredNext]_vars

\* ------------------------------------------------------- parse_thinking_content
\* A response text is a sequence of tokens: the think tags in either case,
\* a whitespace character, letters, and the two halves of an opening tag.  A
\* half followed by the other half is the characters of the tag, and is
\* written as the tag: a string has one sequence of tokens.
Tokens == { "<think>", "<THINK>", "</think>", "</THINK>", "\n", "a", "<thi", "nk>" }

\* the string that the pieces of s make when put one after the other
RECURSIVE Spell(_)
Spell(s) ==
    IF Len(s) < 2 THEN s
    ELSE IF s[1] = "<thi" /\ s[2] = "nk>"
    THEN << "<think>" >> \o Spell(SubSeq(s, 3, Len(s)))
    ELSE << s[1] >> \o Spell(Tail(s))

Texts ==
    { t \in UNION { [ 1..n -> Tokens ] : n \in 0..MaxText } :
        \A i \in 1..(Len(t) - 1) : ~(t[i] = "<thi" /\ t[i + 1] = "nk>") }

\* re.IGNORECASE
Lower(t) ==
    CASE t = "<THINK>"  -> "<think>"
      [] t = "</THINK>" -> "</think>"
      [] OTHER          -> t

IsOpen(t) == Lower(t) = "<think>"

IsClose(t) == Lower(t) = "</think>"

\* str.strip() removes these
IsSpace(t) == t \in { " ", "\n", "\t" }

\* the first index from i on that holds an opening tag, 0 if there is none
NextOpen(s, i) ==
    LET J == { j \in i..Len(s) : IsOpen(s[j]) } IN
    IF J = {} THEN 0 ELSE CHOOSE j \in J : \A k \in J : j <= k

\* A greedy pattern, (.*)</think>: the last closing tag from i on.
LastClose(s, i) ==
    LET J == { j \in i..Len(s) : IsClose(s[j]) } IN
    IF J = {} THEN 0 ELSE CHOOSE j \in J : \A k \in J : j >= k

\* (.*?)</think> with re.DOTALL: the first closing tag from i on, 0 if none
NextClose(s, i) ==
    LET J == { j \in i..Len(s) : IsClose(s[j]) } IN
    IF J = {} THEN 0 ELSE CHOOSE j \in J : \A k \in J : j <= k

\* think_pattern.findall(text), scanning from index i
RECURSIVE FindAll(_, _)
FindAll(s, i) ==
    LET o == NextOpen(s, i)
        c == IF o = 0 THEN 0 ELSE NextClose(s, o + 1) IN
    IF o = 0 \/ c = 0 THEN <<>>
    ELSE << SubSeq(s, o + 1, c - 1) >> \o FindAll(s, c + 1)

\* think_pattern.sub("", text), scanning from index i: the pieces kept
RECURSIVE SubAll(_, _)
SubAll(s, i) ==
    LET o == NextOpen(s, i)
        c == IF o = 0 THEN 0 ELSE NextClose(s, o + 1) IN
    IF o = 0 \/ c = 0 THEN SubSeq(s, i, Len(s))
    ELSE SubSeq(s, i, o - 1) \o SubAll(s, c + 1)

RECURSIVE LStrip(_)
LStrip(s) == IF s # <<>> /\ IsSpace(Head(s)) THEN LStrip(Tail(s)) ELSE s

RECURSIVE RStrip(_)
RStrip(s) ==
    IF s # <<>> /\ IsSpace(s[Len(s)]) THEN RStrip(SubSeq(s, 1, Len(s) - 1)) ELSE s

\* str.strip()
Strip(s) == RStrip(LStrip(s))

\* "\n\n".join(parts)
RECURSIVE Join(_)
Join(parts) ==
    IF parts = <<>> THEN <<>>
    ELSE IF Len(parts) = 1 THEN parts[1]
    ELSE parts[1] \o <<"\n", "\n">> \o Join(Tail(parts))

\* A parser that trims the text also when it holds no think block.
parse_thinking_trimmed(text) ==
    LET parts == FindAll(text, 1) IN
    IF parts = <<>>
    THEN [ response |-> Strip(text), thinking |-> None ]
    ELSE [ response |-> Strip(Spell(SubAll(text, 1))),
           thinking |-> Join([ k \in 1..Len(parts) |-> Strip(parts[k]) ]) ]

\* parse_thinking_content(text) -> (response, thinking)
parse_thinking_content(text) ==
    LET parts == FindAll(text, 1) IN
    IF parts = <<>>
    THEN [ response |-> text, thinking |-> None ]
    ELSE [ response |-> Strip(Spell(SubAll(text, 1))),
           thinking |-> Join([ k \in 1..Len(parts) |-> Strip(parts[k]) ]) ]

\* ------------------------------------------------------- pricing
\* MODEL_PRICING in the order of the dict literal.  A name is the sequence of
\* its pieces ("gpt-4o-mini" is "gpt-4o" then "-mini"), so that startswith is
\* the prefix order of sequences.  A rate is in thousandths of a USD per
\* million tokens (0.075 is 75), which makes every rate an integer.
MODEL_PRICING ==
    << [ key |-> << "gpt-4o" >>,                    input |-> 2500, output |-> 10000 ],
       [ key |-> << "gpt-4o", "-mini" >>,           input |-> 150,  output |-> 600 ],
       [ key |-> << "gpt-4.1" >>,                   input |-> 2000, output |-> 8000 ],
       [ key |-> << "gpt-4.1", "-mini" >>,          input |-> 400,  output |-> 1600 ],
       [ key |-> << "gpt-4.1", "-nano" >>,          input |-> 100,  output |-> 400 ],
       [ key |-> << "o3-mini" >>,                   input |-> 1100, output |-> 4400 ],
       [ key |-> << "gemini-2.0-flash" >>,          input |-> 100,  output |-> 400 ],
       [ key |-> << "gemini-2.5-flash" >>,          input |-> 150,  output |-> 600 ],
       [ key |-> << "gemini-2.5-pro" >>,            input |-> 1250, output |-> 10000 ],
       [ key |-> << "gemini-2.0-flash", "-lite" >>, input |-> 75,   output |-> 300 ] >>

\* model.startswith(key)
StartsWith(m, key) ==
    /\ Len(key) <= Len(m)
    /\ \A i \in 1..Len(key) : m[i] = key[i]

\* the scan alone: the first key of the table the name starts with, 0 if none
FirstPrefix(m) ==
    LET hits == { i \in 1..Len(MODEL_PRICING) : StartsWith(m, MODEL_PRICING[i].key) }
    IN  IF hits = {} THEN 0 ELSE CHOOSE i \in hits : \A j \in hits : i <= j

\* a lookup that scans the table without trying the whole name first
PricingScanOnly(m) == FirstPrefix(m)

\* MODEL_PRICING.get(model), then the scan in table order: the index of the
\* entry used, 0 if there is none
Pricing(m) ==
    LET exact == { i \in 1..Len(MODEL_PRICING) : MODEL_PRICING[i].key = m }
    IN  IF exact # {} THEN CHOOSE i \in exact : TRUE ELSE FirstPrefix(m)

\* tokens * rate / 1_000_000 as whole thousandths of a USD and the millionths
\* of a thousandth left over, computed in parts so that no intermediate
\* product leaves 32 bits (the floats of the source are taken as exact)
Times(tokens, rate) ==
    LET h == (tokens \div 1000) * rate
        l == (h % 1000) * 1000 + (tokens % 1000) * rate
    IN  [ milli |-> h \div 1000 + l \div 1000000, frac |-> l % 1000000 ]

Plus(x, y) ==
    [ milli |-> x.milli + y.milli + (x.frac + y.frac) \div 1000000,
      frac  |-> (x.frac + y.frac) % 1000000 ]

\* estimate_cost: None, or
\* (input_tokens * input_cost + output_tokens * output_cost) / 1_000_000
estimate_cost(m, input_tokens, output_tokens) ==
    LET i == Pricing(m)
    IN  IF i = 0 THEN [ known |-> FALSE ]
        ELSE LET c == Plus(Times(input_tokens, MODEL_PRICING[i].input),
                           Times(output_tokens, MODEL_PRICING[i].output))
             IN  [ known |-> TRUE, milli |-> c.milli, frac |-> c.frac ]

\* pieces of the model names the estimator is asked about
NamePieces ==
    { "gpt-4o", "gpt-4.1", "o3-mini", "gemini-2.0-flash", "gemini-2.5-pro",
      "-mini", "-nano", "-lite", "-2024", "unknown-model-x" }

ModelNames == UNION { [ 1..n -> NamePieces ] : n \in 0..MaxName }

TokenCounts == { 0, 100, 1000000 }

\* ------------------------------------------------------- chat messages
\* ChatMessage: role, content, images (the timestamp is not read)
ChatMessages ==
    [ role : { "user", "assistant", "system" }, content : { "c", "d" }, images : ImageLists ]

\* ChatRequest as far as the message list reads it: whether a history was
\* given, the history, the message and its images
ChatRequests ==
    [ has_history : { TRUE },
      history : UNION { [ 1..n -> ChatMessages ] : n \in 0..MaxTurns },
      message : { "c", "d" }, images : ImageLists ]
      \cup [ has_history : { FALSE }, history : { <<>> },
             message : { "c", "d" }, images : ImageLists ]

\* a message dict that never carries images
msg_dict_text_only(role, content, images) == [ role |-> role, content |-> content ]

\* {"role": ..., "content": ...}, with "images" when there are any
msg_dict(role, content, images) ==
    IF Truthy(images)
    THEN [ role |-> role, content |-> content, images |-> images ]
    ELSE [ role |-> role, content |-> content ]

\* the messages list POST /chat builds and passes to llm_service.chat
chat_messages(body) ==
    LET h == body.history
        messages == IF body.has_history /\ h # <<>>
                    THEN [ k \in 1..Len(h) |->
                             msg_dict(h[k].role, h[k].content, h[k].images) ]
                    ELSE <<>>
    IN  Append(messages, msg_dict("user", body.message, body.images))

\* ------------------------------------------------------- base URL
\* The value of OLLAMA_HOST: not set, or a string made of the pieces "http",
\* ":", "/" and a host name (no run of the others spells "http").
HostPieces == { "http", ":", "/", "host" }

HostValues == { None } \cup UNION { [ 1..n -> HostPieces ] : n \in 0..MaxHost }

\* s.rstrip("/")
RStripSlash(s) ==
    LET keep == { n \in 0..Len(s) : \A i \in (n + 1)..Len(s) : s[i] = "/" }
    IN  SubSeq(s, 1, CHOOSE n \in keep : \A k \in keep : n <= k)

\* a resolution that returns the value without stripping it
get_ollama_base_url_unstripped(ollama_host) ==
    IF Truthy(ollama_host)
    THEN IF ollama_host[1] # "http"
         THEN << "http", ":", "/", "/" >> \o ollama_host
         ELSE ollama_host
    ELSE << "http", ":", "/", "/", "localhost:11434" >>

\* get_ollama_base_url(), given os.environ.get("OLLAMA_HOST")
get_ollama_base_url(ollama_host) ==
    IF Truthy(ollama_host)
    THEN RStripSlash(IF ollama_host[1] # "http"
                     THEN << "http", ":", "/", "/" >> \o ollama_host
                     ELSE ollama_host)
    ELSE << "http", ":", "/", "/", "localhost:11434" >>

\* OllamaService.__init__ of the template: self._base_url
ollama_base_url(base_url, tether_ollama_base_url, ollama_host) ==
    RStripSlash(PyOr(PyOr(base_url, tether_ollama_base_url),
                     get_ollama_base_url(ollama_host)))

\* OllamaService.__init__ of the package: self._base_url
package_ollama_base_url(base_url, ollama_host) ==
    RStripSlash(PyOr(base_url, get_ollama_base_url(ollama_host)))

\* settings.tether_ollama_base_url (TETHER_OLLAMA_BASE_URL): not set, empty,
\* or the URL of a daemon, with or without a trailing "/"
SettingUrls ==
    { None, <<>>, << "http", ":", "/", "/", "host" >>,
      << "http", ":", "/", "/", "localhost:11434", "/" >> }

\* GET /models: the URL given to discover_ollama
list_models_url(tether_ollama_base_url, ollama_host) == get_ollama_base_url(ollama_host)

\* POST /models/switch: the URL given to discover_ollama
switch_model_url(tether_ollama_base_url, ollama_host) == get_ollama_base_url(ollama_host)

\* ------------------------------------------------------- the functions alone
\* The pure functions of the routes, each called once on an input, with the
\* service constructed and left alone.
PureInit == Init /\ service_type = "mock"

Untouched == UNCHANGED << service_type, env, adapter, created, closed, frame >>

\* use_thinking as POST /chat computes it for a request body
DispatchCall ==
    /\ last.op = "construct"
    /\ \E body \in ChatBodies :
         last' = [ op |-> "dispatch", body |-> body, think_arg |-> DispatchThink(body) ]
    /\ Untouched

\* parse_thinking_content on a response text, and on the response it returned
ParseCall ==
    /\ last.op = "construct"
    /\ \E text \in Texts :
         LET result == parse_thinking_content(text) IN
         last' = [ op |-> "parse_thinking_content", text |-> text,
                   result |-> result,
                   again |-> parse_thinking_content(result.response) ]
    /\ Untouched

\* discover_ollama of the template and of the package on one outcome of the GET
DiscoverCall ==
    /\ last.op = "construct"
    /\ \E t \in TagsOutcomes :
         last' = [ op |-> "discover_ollama", outcome |-> t,
                   template |-> discover_ollama(t),
                   package |-> package_discover_ollama(t) ]
    /\ Untouched

\* estimate_cost on a model name and two token counts
EstimateCall ==
    /\ last.op = "construct"
    /\ \E m \in ModelNames, i \in TokenCounts, o \in TokenCounts :
         last' = [ op |-> "estimate_cost", model |-> m,
                   input_tokens |-> i, output_tokens |-> o,
                   result |-> estimate_cost(m, i, o) ]
    /\ Untouched

\* get_ollama_base_url() under a value of OLLAMA_HOST, and the base URL of an
\* OllamaService constructed with no base_url and none in the settings
BaseUrlCall ==
    /\ last.op = "construct"
    /\ \E h \in HostValues :
         last' = [ op |-> "get_ollama_base_url", ollama_host |-> h,
                   result |-> get_ollama_base_url(h),
                   adapter |-> ollama_base_url(None, None, h),
                   package_adapter |-> package_ollama_base_url(None, h) ]
    /\ Untouched

\* the message list of POST /chat for a request body
MessagesCall ==
    /\ last.op = "construct"
    /\ \E body \in ChatRequests :
         last' = [ op |-> "chat_messages", body |-> body,
                   messages |-> chat_messages(body) ]
    /\ Untouched

\* The endpoints under one environment: the base URL of the OllamaService that
\* get_llm_service() constructs, which initialize discovers at and the client
\* posts to, and the URLs the two model routes discover at
EndpointsCall ==
    /\ last.op = "construct"
    /\ \E u \in SettingUrls, h \in HostValues :
         last' = [ op |-> "endpoints", tether_ollama_base_url |-> u, ollama_host |-> h,
                   adapter |-> ollama_base_url(None, u, h),
                   list_models |-> list_models_url(u, h),
                   switch_model |-> switch_model_url(u, h) ]
    /\ Untouched

PureNext ==
    \/ EndpointsCall
    \/ DispatchCall
    \/ ParseCall
    \/ DiscoverCall
    \/ EstimateCall
    \/ BaseUrlCall
    \/ MessagesCall

PureSpec == PureInit /\ [][PureNext]_vars

\* =====================================================================
\* Properties.  `last` is the step just taken, so a property of an operation is
\* an invariant over the states that follow one of its steps.

Hosted == service_type \in { "openai", "gemini" }

\* A generation call reached its readiness guard in the step just taken.
CallStarted ==
    \/ last.op \in { "complete", "stream" }
    \/ last.op = "chat" /\ (last.outcome = "pending" \/ last.nreq = 0)

\* C1: on every kind of adapter, a complete, chat or stream call made while
\* is_ready() is false fails with NotReady and sends no request.
C1_NotReadyRejected ==
    (CallStarted /\ ~is_ready) => (last.outcome = "NotReady" /\ last.sent = 0)

\* The part of a catalog name before its first ":" separator, by its meaning:
\* the prefix that holds no separator and is followed by one, or the whole name.
ShortName(m) ==
    CHOOSE p \in { SubSeq(m, 1, k) : k \in 0..Len(m) } :
      /\ \A i \in 1..Len(p) : p[i] # ":"
      /\ Len(p) = Len(m) \/ m[Len(p) + 1] = ":"

Matches(name, catalog) ==
    \E i \in 1..Len(catalog) : name = catalog[i] \/ name = ShortName(catalog[i])

\* A switch on the local-daemon adapter was decided against a catalog.
SwitchDecided ==
    /\ service_type = "ollama"
    /\ last.op = "switch_model"
    /\ last.outcome \in { "ok", "http_404" }

\* C2: a switch on a ready local-daemon adapter succeeds and makes the name the
\* current model when the name equals a freshly discovered catalog name or its
\* part before the first ":"; otherwise it fails with not-found and the current
\* model is the one before the call.
C2_SwitchMatchesCatalog ==
    SwitchDecided =>
      IF Matches(last.name, last.catalog)
      THEN last.outcome = "ok" /\ model = last.name /\ model_name = last.name
      ELSE last.outcome = "http_404" /\ model_name = last.before

\* a switch accepted on the short form of a catalog name
C2_Witness ==
    /\ SwitchDecided
    /\ last.outcome = "ok"
    /\ ~InList(last.name, last.catalog)
    /\ model = last.name

ChatFinished ==
    last.op = "chat" /\ last.outcome \in { "ok", "UpstreamError", "TransportError" }
                     /\ last.note # "none"

\* C3: on the local-daemon adapter a chat with reasoning whose first request is
\* rejected sends exactly one further request, the same but for the reasoning
\* flag; the result comes from the second response, an error is raised only if
\* the second request fails, and there is never a third request.
C3_OneRetryWithoutFlag ==
    (service_type = "ollama" /\ last.op = "chat") =>
      /\ last.nreq <= 2
      /\ \A f \in Suspended : f.nreq <= 2
      /\ last.outcome = "retry" =>
           /\ last.sent = 1 /\ last.nreq = 2
           /\ ~last.think
           /\ last.used = last.before
           /\ ~is_success(last.note)
      /\ (ChatFinished /\ last.nreq = 1 /\ last.think) => last.note \in { "ok", "exception" }
      /\ (ChatFinished /\ last.nreq = 2) =>
           /\ ~last.think
           /\ last.outcome = "ok" <=> last.note = "ok"

\* a chat answered from the response to its second request
C3_Witness ==
    /\ service_type = "ollama"
    /\ ChatFinished
    /\ last.nreq = 2
    /\ last.outcome = "ok"

\* C4: the only retry is the one after a rejected reasoning flag: a chat that
\* failed for another reason is not sent again, and complete, stream, discovery
\* and switch send at most one request per call.
C4_RetryOnlyOnFlagRejection ==
    /\ (last.op = "chat" /\ last.outcome = "retry") => last.note = "think_rejected"
    /\ last.op \in { "complete", "stream", "switch_model", "initialize" } => last.sent <= 1
    /\ \A f \in Suspended : f.op \in { "switch_model", "initialize" } => f.nreq <= 1

\* C5: the model a chat response reports is the model that was sent to the
\* backend for that chat, whatever switch ran meanwhile.
C5_ReportedModelIsUsed ==
    (last.op = "chat" /\ last.outcome = "ok") =>
      last.reported = (IF service_type = "ollama" THEN PyOr(last.used, <<"not-set">>)
                       ELSE last.used)

Reconfiguring == { f \in Suspended : f.op \in { "switch_model", "set_api_key" } }

\* C6: reconfigurations are serialized: two of them (switch, set key) are
\* never in progress on an adapter at the same time.
C6_ReconfigurationsSerialized ==
    \A f \in Reconfiguring :
      /\ CopiesIn(f, frame) = 1
      /\ \A g \in Reconfiguring : g = f

\* C7: cleanup never raises, and after it the adapter is Uninitialized: not
\* ready, not awaiting a credential, its handle released and no longer held.
C7_CleanupUninitializes ==
    last.op = "cleanup" =>
      /\ last.outcome = "ok"
      /\ ~is_ready
      /\ ~needs_api_key
      /\ Transport = 0

\* C8: a cleanup that follows a cleanup raises nothing, changes nothing and
\* closes no handle the earlier one had released.
C8_CleanupIdempotent ==
    [][ (last.op = "cleanup" /\ last'.op = "cleanup") =>
          /\ last'.outcome = "ok"
          /\ ~last'.reclosed
          /\ adapter' = adapter /\ closed' = closed ]_vars

\* C9: initialize on a hosted-API adapter with no credential does not raise
\* and leaves it AwaitingCredential: a key is needed and it is not ready.
C9_NoCredentialAwaits ==
    (Hosted /\ last.note = "no_credential") =>
      /\ last.outcome = "ok"
      /\ needs_api_key
      /\ ~is_ready

\* C10: set_api_key with a non-empty key on a hosted-API adapter that awaits a
\* credential stores the key and initializes it: when the SDK is installed
\* the call ends with the adapter ready and no longer awaiting a credential.
C10_KeySupplyMakesReady ==
    ( /\ last.op = "set_api_key" /\ last.outcome # "pending"
      /\ last.awaited /\ Truthy(last.name) /\ env.installed ) =>
      /\ last.outcome = "ok"
      /\ api_key = last.name
      /\ is_ready
      /\ ~needs_api_key

\* C11: set_api_key on an adapter without credential injection (local daemon,
\* native, stub) fails as unsupported, names the backend kind, and leaves the
\* adapter's state, model and handle as they were.
C11_SetKeyUnsupported ==
    [][ (last'.op = "set_api_key" /\ ~Hosted) =>
          /\ last'.outcome = "http_400:unsupported"
          /\ last'.note = service_type
          /\ adapter' = adapter
          /\ created' = created /\ closed' = closed ]_vars

\* a key submitted to a ready local-daemon adapter
C11_Witness ==
    /\ service_type = "ollama"
    /\ last.op = "set_api_key"
    /\ Truthy(last.name)
    /\ is_ready

HasTransport == service_type # "mock"

\* C12: on every adapter with a transport, in every reachable state, the ready
\* flag is set only while the handle is non-null, and is_ready() is true
\* exactly when the flag is set and the handle is present.
C12_ReadyHasHandle ==
    HasTransport =>
      /\ ready => Transport # 0
      /\ is_ready <=> (ready /\ Transport # 0)

\* an adapter made ready through set_api_key
C12_Witness ==
    /\ HasTransport
    /\ last.op = "set_api_key" /\ last.outcome = "ok"
    /\ ready /\ Transport # 0

\* C13: in every reachable state an adapter whose is_ready() is true has a
\* non-empty model name; on the local-daemon adapter the model is set, so the
\* name is never the "not-set" placeholder.
C13_ReadyHasModel ==
    is_ready =>
      /\ Truthy(model_name)
      /\ service_type = "ollama" => (Truthy(model) /\ model_name # <<"not-set">>)

\* a local-daemon adapter that was constructed without a model and is ready
C13_Witness ==
    /\ service_type = "ollama"
    /\ last.op = "initialize" /\ last.outcome = "ok"
    /\ is_ready
    /\ model \in CatalogEntries \ OllamaConfigured

\* The handles that are open: an OpenAI or httpx client stays open until
\* close()/aclose() is awaited on it; a genai client or a Llama object has no
\* close and is released when the adapter drops its reference.
OpenHandles ==
    IF service_type \in { "openai", "ollama" }
    THEN { h \in 1..created : h \notin closed }
    ELSE { h \in { Transport } : h # 0 }

\* C14: across initialize, set_api_key and cleanup an adapter has at most one
\* open transport handle at any time.
C14_OneOpenHandle ==
    Cardinality(OpenHandles) <= 1

\* An initialize of the local-daemon adapter returned or raised after discovery.
OllamaInitialized ==
    /\ service_type = "ollama"
    /\ last.op = "initialize"
    /\ last.outcome \notin { "pending", "ImportError" }

\* C15: local-daemon initialize with no configured model: a reachable daemon
\* with a non-empty catalog makes the catalog's first entry the current model
\* and the adapter ready; an empty catalog or an unreachable daemon makes
\* initialize fail and the adapter is not ready.
C15_AutoSelectFirst ==
    (OllamaInitialized /\ last.before = <<"not-set">>) =>
      IF last.note = "none" /\ last.catalog # <<>>
      THEN /\ last.outcome = "ok"
           /\ model = last.catalog[1]
           /\ is_ready
      ELSE /\ last.outcome \in { "RuntimeError:unreachable", "RuntimeError:no_models" }
           /\ ~is_ready

\* auto-selection from a catalog of two entries
C15_Witness ==
    /\ OllamaInitialized /\ last.before = <<"not-set">>
    /\ last.outcome = "ok"
    /\ Len(last.catalog) = 2
    /\ model = last.catalog[1]

\* C16: local-daemon initialize with a configured model that matches no
\* catalog entry (exact or short name), the empty catalog included, does not
\* fail: it warns, and the adapter ends ready with the configured model.
C16_MissingModelWarns ==
    ( /\ OllamaInitialized /\ last.before # <<"not-set">>
      /\ last.note = "none" /\ ~Matches(last.before, last.catalog) ) =>
      /\ last.outcome = "ok"
      /\ last.warned
      /\ is_ready
      /\ model_name = last.before

\* a configured model kept although the daemon lists no model at all
C16_Witness ==
    /\ OllamaInitialized /\ last.before # <<"not-set">>
    /\ last.note = "none" /\ last.catalog = <<>>
    /\ last.warned
    /\ is_ready

\* An image list that holds at least one image.
SomeImage(l) == l # None /\ Len(l) >= 1

\* The current message or a history message of the request carries an image.
CarriesImage(body) ==
    \/ SomeImage(body.images)
    \/ body.history # None /\ \E i \in 1..Len(body.history) : SomeImage(body.history[i])

\* C17: a chat request whose current message or history carries an image
\* reaches the adapter's chat with think disabled whatever flag the caller
\* gave; a request with no image passes the caller's flag on, enabled when the
\* caller gave none.
C17_VisionDisablesThinking ==
    last.op = "dispatch" =>
      last.think_arg =
        IF CarriesImage(last.body) THEN FALSE
        ELSE IF last.body.think = "None" THEN TRUE
        ELSE last.body.think = "True"

\* thinking asked for, an image only in the history, chat called without it
C17_Witness ==
    /\ last.op = "dispatch"
    /\ last.body.think = "True"
    /\ ~SomeImage(last.body.images)
    /\ CarriesImage(last.body)
    /\ ~last.think_arg

\* The think blocks of a text, stated by position.  An opening tag begins a
\* block when a closing tag follows it and it does not lie inside an earlier
\* block, that is, no earlier opening tag reaches it without a closing tag
\* between; the block ends at the first closing tag after its opening tag.
OpenTags == { "<think>", "<THINK>" }

CloseTags == { "</think>", "</THINK>" }

BeginsBlock(s, o) ==
    /\ s[o] \in OpenTags
    /\ \E c \in (o + 1)..Len(s) : s[c] \in CloseTags
    /\ ~\E q \in 1..(o - 1) :
          s[q] \in OpenTags /\ \A k \in (q + 1)..(o - 1) : s[k] \notin CloseTags

BlockEnd(s, o) ==
    CHOOSE c \in (o + 1)..Len(s) :
      s[c] \in CloseTags /\ \A k \in (o + 1)..(c - 1) : s[k] \notin CloseTags

Blocks(s) == { o \in 1..Len(s) : BeginsBlock(s, o) }

\* the k-th smallest member of a set of indices
Nth(S, k) == CHOOSE x \in S : Cardinality({ y \in S : y <= x }) = k

InnerText(s, k) ==
    LET o == Nth(Blocks(s), k) IN SubSeq(s, o + 1, BlockEnd(s, o) - 1)

\* the text with every block removed
Visible(s) ==
    LET Kept == { p \in 1..Len(s) :
                    ~\E o \in Blocks(s) : o <= p /\ p <= BlockEnd(s, o) } IN
    [ k \in 1..Cardinality(Kept) |-> s[Nth(Kept, k)] ]

\* a text without its leading and trailing whitespace
Trimmed(x) ==
    LET Ink == { p \in 1..Len(x) : x[p] # "\n" } IN
    IF Ink = {} THEN <<>>
    ELSE SubSeq(x, Nth(Ink, 1), Nth(Ink, Cardinality(Ink)))

Parsed == last.op = "parse_thinking_content"

\* The characters of a text, as far as tokens share them: an opening tag in
\* lower case is its two halves.  Two texts are the same string when their
\* letters are the same.
RECURSIVE Letters(_)
Letters(x) ==
    IF x = <<>> THEN <<>>
    ELSE (IF Head(x) = "<think>" THEN << "<thi", "nk>" >> ELSE << Head(x) >>)
           \o Letters(Tail(x))

\* C18 as stated: for a text with one or more think blocks, thinking is the
\* inner texts of the blocks, in document order, joined by a blank line, and
\* the response is the text with every block removed, trimmed.
C18_InnerTextsJoined ==
    (Parsed /\ Blocks(last.text) # {}) =>
      /\ last.result.thinking =
           Join([ k \in 1..Cardinality(Blocks(last.text)) |-> InnerText(last.text, k) ])
      /\ Letters(last.result.response) = Letters(Trimmed(Visible(last.text)))

\* C18 amended: thinking is the inner texts of the blocks, each trimmed of its
\* leading and trailing whitespace, in document order, joined by a blank line;
\* the response is the text with every block removed, trimmed.
C18_TrimmedInnerTextsJoined ==
    (Parsed /\ Blocks(last.text) # {}) =>
      /\ last.result.thinking =
           Join([ k \in 1..Cardinality(Blocks(last.text)) |->
                    Trimmed(InnerText(last.text, k)) ])
      /\ Letters(last.result.response) = Letters(Trimmed(Visible(last.text)))

\* two blocks, the first holding a letter, and visible text after them
C18_Witness ==
    /\ Parsed
    /\ Cardinality(Blocks(last.text)) = 2
    /\ InnerText(last.text, 1) = <<"a">>
    /\ last.result.thinking = <<"a", "\n", "\n">>

\* The text holds a complete pair: an opening tag with a closing tag after it.
HasPair(s) ==
    \E o \in 1..Len(s), c \in 1..Len(s) :
      o < c /\ s[o] \in OpenTags /\ s[c] \in CloseTags

\* C19: for a text with no complete think pair (plain text, or only opening
\* or only closing tags) parse_thinking_content returns the text exactly as
\* given, untrimmed, and thinking None.
C19_NoPairUnchanged ==
    (Parsed /\ ~HasPair(last.text)) =>
      /\ last.result.response = last.text
      /\ last.result.thinking = None

\* a text with whitespace at an end and a lone tag, returned as it is
C19_Witness ==
    /\ Parsed
    /\ ~HasPair(last.text)
    /\ \E p \in 1..Len(last.text) : last.text[p] \in OpenTags \cup CloseTags
    /\ Len(last.text) >= 2 /\ last.text[1] = "\n"
    /\ last.result.response = last.text

\* what C20 asks of one DiscoveryResult for an outcome of the request
GoodDiscovery(r, t) ==
    IF r.available
    THEN r.error = None /\ r.models = t.models
    ELSE r.models = <<>> /\ Truthy(r.error)

\* C20: discover_ollama returns a result for every outcome of the request and
\* never raises; an unavailable result has no models and a non-empty error,
\* an available one has no error and the models in registry order.
C20_DiscoveryNeverRaises ==
    last.op = "discover_ollama" =>
      /\ GoodDiscovery(last.template, last.outcome)
      /\ GoodDiscovery(last.package, last.outcome)

\* ---- what an error text tells its reader
Mentions(e, token) == \E i \in 1..Len(e) : e[i] = token

\* the backend could not be reached, and perhaps how to start it
SaysRefused(e) == Mentions(e, "Cannot connect to Ollama at ")

SaysUnresponsive(e) ==
    Mentions(e, " timed out. The server may be busy or unresponsive.")

SaysStatus(e) == \E c \in StatusCodes : Mentions(e, c)

\* the one thing the error of a failed request has to say, and only that
TellsFailure(r, t) ==
    CASE t.kind = "ConnectError" ->
            SaysRefused(r.error) /\ ~SaysUnresponsive(r.error) /\ ~SaysStatus(r.error)
      [] t.kind = "TimeoutException" ->
            SaysUnresponsive(r.error) /\ ~SaysRefused(r.error) /\ ~SaysStatus(r.error)
      [] t.kind = "HTTPStatusError" ->
            /\ Mentions(r.error, t.status)
            /\ ~SaysRefused(r.error) /\ ~SaysUnresponsive(r.error)
      [] OTHER -> TRUE

\* C21: discover_ollama tells the three transport failures apart: a refused
\* connection gives the cannot-connect error, a timeout the unresponsive
\* error, a non-2xx status an error with the status code, and none of the
\* three errors reads as one of the other two.
C21_FailuresDistinguishable ==
    last.op = "discover_ollama" =>
      /\ TellsFailure(last.template, last.outcome)
      /\ TellsFailure(last.package, last.outcome)

\* ---- the cost estimator
Estimated == last.op = "estimate_cost"

\* a cost of so many thousandths of a USD
MilliUSD(r, k) == r.known /\ r.milli = k /\ r.frac = 0

\* C22: estimate("gpt-4o-mini-2024", 1_000_000, 0) is the input rate of the
\* gpt-4o-mini entry, 0.15 USD, and estimate("unknown-model-x", 100, 100) is
\* unknown.
C22_PrefixExample ==
    /\ ( /\ Estimated
         /\ last.model = << "gpt-4o", "-mini", "-2024" >>
         /\ last.input_tokens = 1000000 /\ last.output_tokens = 0 )
       => MilliUSD(last.result, 150)
    /\ ( /\ Estimated
         /\ last.model = << "unknown-model-x" >>
         /\ last.input_tokens = 100 /\ last.output_tokens = 100 )
       => ~last.result.known

\* entries whose key is the name, and entries whose key the name starts with
ExactEntries(m) == { i \in 1..Len(MODEL_PRICING) : MODEL_PRICING[i].key = m }

PrefixEntries(m) ==
    { i \in 1..Len(MODEL_PRICING) :
        /\ Len(MODEL_PRICING[i].key) <= Len(m)
        /\ SubSeq(m, 1, Len(MODEL_PRICING[i].key)) = MODEL_PRICING[i].key }

\* tokens * rate / 1,000,000, with the rate taken by its hundreds
Share(tokens, rate) ==
    LET h == tokens * (rate \div 100)
        l == (h % 10000) * 100 + tokens * (rate % 100)
    IN  [ milli |-> h \div 10000 + l \div 1000000, frac |-> l % 1000000 ]

\* r is (in x inputRate + out x outputRate) / 1,000,000 at the rates of entry i
IsCostAt(r, i, input_tokens, output_tokens) ==
    LET x == Share(input_tokens, MODEL_PRICING[i].input)
        y == Share(output_tokens, MODEL_PRICING[i].output)
    IN  /\ r.known
        /\ r.milli = x.milli + y.milli + (x.frac + y.frac) \div 1000000
        /\ r.frac = (x.frac + y.frac) % 1000000

\* C23: estimate uses the entry whose key is the model name when there is one,
\* even if another key is a prefix of the name; otherwise the first entry in
\* table order whose key is a prefix of the name; with no such entry the
\* result is unknown, not zero; with an entry it is
\* (in x inputRate + out x outputRate) / 1,000,000.
C23_ExactThenFirstPrefix ==
    Estimated =>
      LET m == last.model
          r == last.result
      IN  IF ExactEntries(m) # {}
          THEN \A i \in ExactEntries(m) :
                 IsCostAt(r, i, last.input_tokens, last.output_tokens)
          ELSE IF PrefixEntries(m) # {}
          THEN \E i \in PrefixEntries(m) :
                 /\ \A j \in PrefixEntries(m) : i <= j
                 /\ IsCostAt(r, i, last.input_tokens, last.output_tokens)
          ELSE ~r.known /\ r # [ known |-> TRUE, milli |-> 0, frac |-> 0 ]

\* a name that is a key of the table and starts with an earlier key, priced
\* at its own rates
C23_Witness ==
    /\ Estimated
    /\ last.model = << "gpt-4o", "-mini" >>
    /\ PrefixEntries(last.model) # ExactEntries(last.model)
    /\ last.input_tokens = 1000000 /\ last.output_tokens = 100
    /\ last.result = [ known |-> TRUE, milli |-> 150, frac |-> 60000 ]

\* ---- the native in-process load
\* a load of the native adapter failed in the step just taken
LoadFailed ==
    /\ service_type = "local"
    /\ last.op = "initialize"
    /\ last.outcome \in { "RuntimeError:invalid_format", "RuntimeError:not_enough_memory",
                          "RuntimeError:load_failed" }

\* what the failure signal tells of the cause
SignalsFormat(w) == "gguf" \in w \/ "magic" \in w

SignalsMemory(w) == "memory" \in w \/ "alloc" \in w

\* initialize failed on the path, before the load
PathMissing ==
    /\ service_type = "local"
    /\ last.op = "initialize"
    /\ last.outcome \in { "RuntimeError:no_model_path", "RuntimeError:file_not_found" }

\* C24: a failed native load is presented as an invalid-format error when the
\* failure signals the format, as a resource error when it signals insufficient
\* memory and as a generic failure otherwise; a failure signalling insufficient
\* memory is never presented as a format error; a missing path fails before a
\* load is attempted; and the adapter is not ready after any of these.
C24_LoadFailuresDistinguished ==
    /\ LoadFailed =>
         /\ SignalsMemory(last.signal) => last.outcome = "RuntimeError:not_enough_memory"
         /\ (SignalsFormat(last.signal) /\ ~SignalsMemory(last.signal))
              => last.outcome = "RuntimeError:invalid_format"
         /\ (~SignalsFormat(last.signal) /\ ~SignalsMemory(last.signal))
              => last.outcome = "RuntimeError:load_failed"
         /\ ~is_ready
    /\ PathMissing =>
         /\ ~(\E f \in Suspended : f.op = "initialize")
         /\ llm = 0 /\ created = 0
         /\ ~is_ready

\* ---- the threads of the native adapter
\* the step just taken loaded the model or ran an inference step
DidModelWork ==
    /\ service_type = "local"
    /\ last.op \in { "initialize", "complete", "stream" }
    /\ last.ran # "none"

\* C25: the native adapter's model load and every inference step, the
\* production of each streamed chunk included, run on a worker and never on
\* the scheduling thread, which stays free for a health check or another
\* request while they are in progress.
C25_ModelWorkOnWorker ==
    DidModelWork => last.ran = "worker"

\* ---- the stub adapter
\* C26: the stub adapter's initialize always succeeds and makes it ready, and
\* complete is deterministic: the text for a prompt is the same whatever the
\* temperature and the token limit, and whatever was called before.
C26_StubDeterministic ==
    /\ (service_type = "mock" /\ last.op = "initialize") =>
         last.outcome = "ok" /\ is_ready
    /\ (service_type = "mock" /\ last.op = "complete") =>
         /\ last.outcome = "ok"
         /\ \A t \in Temperatures, k \in MaxTokensArgs :
              /\ last.text = mock_complete(last.prompt, t, k)
              /\ last.package_text = package_mock_complete(last.prompt, t, k)

\* the stub answers a prompt of more than 50 characters while it is not ready
\* (before its initialize or after a cleanup)
C26_Witness ==
    /\ service_type = "mock"
    /\ last.op = "complete"
    /\ Len(last.prompt) > 50
    /\ Truthy(last.text)
    /\ ~is_ready

\* ---- construction
\* the adapter variant a configured backend kind stands for
KindOf(c) == IF c = "unset" THEN "mock" ELSE c

\* C27: one adapter is constructed, of the variant the configured backend kind
\* determines, the stub when no backend is configured; and the adapter in use
\* never becomes one of another variant.
C27_OneAdapterByKind ==
    /\ [](last.op = "construct" => service_type = KindOf(last.backend))
    /\ [][service_type' = service_type]_vars

\* ---- the lifespan of the application
\* the step was a request forwarded to the adapter, or a later step of one
IsRequest(e) == e.op \in { "complete", "stream", "chat", "switch_model", "set_api_key" }

\* the startup's initialize has returned and has opened the adapter's first
\* handle
StartupOpened == last.op = "initialize" /\ last.outcome = "ok" /\ created = 1

\* handle h is released: closed, or dropped where the handle has no close
HandleReleased(h) ==
    IF service_type \in { "openai", "ollama" } THEN h \in closed ELSE Transport # h

\* C28: startup creates one adapter and calls initialize on it before any
\* request is forwarded to it; shutdown calls cleanup on that adapter, so that
\* every transport handle opened during a startup that returned is eventually
\* released.
C28_StartupThenShutdown ==
    /\ [][service_type' = service_type]_vars
    /\ [][IsRequest(last') => ~(Starting \/ StartupPending \/ StartupFailed)]_vars
    /\ StartupOpened ~> HandleReleased(1)

\* ---- the base URL of the local daemon
\* r is x without its trailing "/" characters
WithoutTrailingSlashes(r, x) ==
    /\ Len(r) <= Len(x)
    /\ r = SubSeq(x, 1, Len(r))
    /\ \A i \in (Len(r) + 1)..Len(x) : x[i] = "/"
    /\ Len(r) > 0 => r[Len(r)] # "/"

DefaultUrl == << "http", ":", "/", "/", "localhost:11434" >>

\* C29: with OLLAMA_HOST unset or empty the base URL is
\* http://localhost:11434; an override that does not start with "http" gets
\* "http://" prepended; an override that does is returned as given; in both
\* cases without trailing "/" characters; and an adapter constructed with no
\* base URL has the resolved value.
C29_BaseUrlResolution ==
    last.op = "get_ollama_base_url" =>
      LET h == last.ollama_host IN
      /\ (h = None \/ h = <<>>) => last.result = DefaultUrl
      /\ (h # None /\ h # <<>> /\ h[1] # "http") =>
           WithoutTrailingSlashes(last.result, << "http", ":", "/", "/" >> \o h)
      /\ (h # None /\ h # <<>> /\ h[1] = "http") =>
           WithoutTrailingSlashes(last.result, h)
      /\ last.adapter = last.result
      /\ last.package_adapter = last.result

\* a full URL given with trailing slashes comes back without them
C29_Witness ==
    /\ last.op = "get_ollama_base_url"
    /\ last.ollama_host = << "http", ":", "/", "/", "host", "/" >>
    /\ last.result = << "http", ":", "/", "/", "host" >>
    /\ last.adapter = last.result

\* ---- the message list of a chat
\* the images a dispatched message carries, and those a request message has
\* (having none is the same whether the list is absent or empty)
ImagesOf(d) == IF "images" \in DOMAIN d THEN d.images ELSE <<>>

ImagesGiven(images) == IF images = None THEN <<>> ELSE images

\* the dispatched message d is the message with this role, content and images
SameMessage(d, role, content, images) ==
    /\ d.role = role
    /\ d.content = content
    /\ ImagesOf(d) = ImagesGiven(images)

\* C30: the message list dispatched to the adapter's chat is the request
\* history in its order followed by the current user message; nothing is
\* dropped, duplicated or reordered and each message keeps its role, content
\* and images.
C30_MessagesInOrder ==
    last.op = "chat_messages" =>
      LET h == last.body.history
          m == last.messages
      IN  /\ Len(m) = Len(h) + 1
          /\ \A k \in 1..Len(h) :
               SameMessage(m[k], h[k].role, h[k].content, h[k].images)
          /\ SameMessage(m[Len(m)], "user", last.body.message, last.body.images)

\* a history of two different messages, the first with an image, and a
\* current message with an image: three messages dispatched in that order
C30_Witness ==
    /\ last.op = "chat_messages"
    /\ Len(last.body.history) = 2
    /\ last.body.history[1].role = "system" /\ last.body.history[2].role = "assistant"
    /\ Truthy(last.body.history[1].images) /\ Truthy(last.body.images)
    /\ Len(last.messages) = 3
    /\ last.messages[1].role = "system" /\ last.messages[3].role = "user"
    /\ ImagesOf(last.messages[1]) = << "i" >>

\* ---- what a switch leaves alone
\* what the accessors tell of the adapter's ServiceState: is_ready() and the
\* credential-awaited flag
Observed == << is_ready, needs_api_key >>

\* the step now taken is a step of one of these operations
StepOf(ops) == last'.op \in ops

\* C31: a successful switch_model changes the current model name and nothing
\* else of the adapter: readiness, handle, credential and the retained
\* available models stay, and no handle is created or closed as an initialize
\* would; what the accessors tell of the ServiceState changes only in steps of
\* initialize, set_api_key and cleanup, never in one of switch_model, complete,
\* stream or chat.
C31_SwitchChangesModelOnly ==
    /\ [][ (StepOf({ "switch_model" }) /\ last'.outcome = "ok") =>
             /\ model' = last'.name
             /\ << api_key, model_path, client, llm, ready, needs_key,
                   available_models >>' =
                << api_key, model_path, client, llm, ready, needs_key,
                   available_models >>
             /\ created' = created /\ closed' = closed
             /\ Observed' = Observed ]_vars
    /\ [][ Observed' # Observed =>
             StepOf({ "initialize", "set_api_key", "cleanup" }) ]_vars
    /\ [][ StepOf({ "switch_model", "complete", "stream", "chat", "route_chat" }) =>
             Observed' = Observed ]_vars

\* a switch on the local daemon to a model other than the current one, while
\* the adapter retains a catalog other than the one the switch was checked
\* against
C31_Witness ==
    /\ service_type = "ollama"
    /\ last.op = "switch_model" /\ last.outcome = "ok"
    /\ last.before # last.name /\ model = last.name
    /\ available_models # last.catalog
    /\ is_ready

\* ---- the failures of a switch
SwitchFailures ==
    { "http_503:not_ready", "http_503:unavailable", "http_400:unsupported", "http_404" }

\* the backend kinds with a switch at run time
Switchable == service_type \in { "ollama", "gemini" }

\* two failures a caller can tell apart: by the status, or by the detail
Distinguishable(a, b) ==
    \/ SwitchException(a).status_code # SwitchException(b).status_code
    \/ SwitchException(a).detail # SwitchException(b).detail

\* C32: switch_model fails and leaves the current model alone when the adapter
\* is not ready, when discovery reports the backend unreachable and when the
\* backend kind has no switch at run time; the failure tells which: not ready
\* and unreachable differ in status from unsupported and from not found, which
\* differ from each other, and not ready differs from unreachable.
C32_SwitchFailuresDistinct ==
    [][ StepOf({ "switch_model" }) =>
          /\ ~is_ready =>
                last'.outcome = "http_503:not_ready" /\ model' = model
          /\ (is_ready /\ ~Switchable) =>
                last'.outcome = "http_400:unsupported" /\ model' = model
          /\ last'.note = "unavailable" =>
                last'.outcome = "http_503:unavailable" /\ model' = model
          /\ last'.outcome \in SwitchFailures =>
                /\ model' = model
                /\ \A o \in SwitchFailures \ { last'.outcome } :
                     Distinguishable(last'.outcome, o)
          /\ last'.outcome \in { "http_503:not_ready", "http_503:unavailable" } =>
                \A o \in { "http_400:unsupported", "http_404" } :
                  SwitchException(last'.outcome).status_code
                    # SwitchException(o).status_code
          /\ SwitchException("http_400:unsupported").status_code
                # SwitchException("http_404").status_code ]_vars

\* a switch to a name that was in the catalog is refused because the daemon
\* cannot be reached now, and the model is the one before the call
C32_Witness ==
    /\ service_type = "ollama"
    /\ last.op = "switch_model" /\ last.outcome = "http_503:unavailable"
    /\ last.name # model /\ InList(last.name, available_models)
    /\ model_name = last.before
    /\ is_ready

\* ---- the endpoint of the model routes
\* C33: switch_model and the model listing discover the catalog at the
\* endpoint the active local-daemon adapter was initialized against and sends
\* its requests to, the adapter's own base URL, and at no other.
C33_RoutesUseAdapterEndpoint ==
    last.op = "endpoints" =>
      /\ last.list_models = last.adapter
      /\ last.switch_model = last.adapter

\* ---- the model name a chat sends
\* the frames after the step are those before it, with f replaced by g
Replaced(f, g) == frame' = (frame (-) SetToBag({ f })) (+) SetToBag({ g })

\* C34: one chat call on the local daemon sends one model name: the first
\* request carries the current model, and the retry carries the model of the
\* first request also when a switch_model took effect in between.
C34_RetryKeepsModel ==
    [][ (service_type = "ollama" /\ StepOf({ "chat" })) =>
          /\ last'.outcome = "pending" =>
                /\ last'.used = model
                /\ \E g \in BagToSet(frame') :
                     /\ g.op = "chat" /\ g.nreq = 1 /\ g.payload_model = model
                     /\ frame' = frame (+) SetToBag({ g })
          /\ last'.outcome = "retry" =>
                \E f \in Suspended :
                  /\ f.op = "chat" /\ f.nreq = 1
                  /\ last'.used = f.payload_model
                  /\ Replaced(f, [ f EXCEPT !.payload_think = FALSE, !.nreq = 2 ]) ]_vars

\* a retry sent under the model of the first request after a switch made
\* another model the current one
C34_Witness ==
    /\ service_type = "ollama"
    /\ last.op = "chat" /\ last.outcome = "retry"
    /\ last.used # model
    /\ \E f \in Suspended : f.op = "chat" /\ f.nreq = 2 /\ f.payload_model = last.used

\* ---- one ServiceState at a time
\* C35: in every state of a hosted-API adapter reached by initialize,
\* set_api_key with an empty or a non-empty key, and cleanup, the adapter is
\* in one ServiceState: it is never both awaiting a credential and ready.
C35_AwaitingXorReady ==
    Hosted => ~(needs_api_key /\ is_ready)

\* ---- a failed initialize
\* initialize raised in the step just taken, called directly or by set_api_key
InitializeRaised ==
    /\ \/ last.op = "initialize"
       \/ last.op = "set_api_key" /\ Hosted
    /\ last.outcome \notin { "ok", "pending" }

\* C36: after an initialize that raised, on any adapter, is_ready() is false,
\* also when the adapter was ready before the call.
C36_FailedInitializeNotReady ==
    InitializeRaised => ~is_ready

\* ---- auto-selection at every initialize
\* an initialize of the local-daemon adapter has just returned
OllamaInitializeReturned == OllamaInitialized /\ last.outcome = "ok"

\* C37 (under UnconfiguredSpec, where the local-daemon adapter is constructed
\* with no configured model): every initialize that returns, a later one
\* after a cleanup included, has discovered a catalog that is not empty and
\* leaves its first entry as the current model; an initialize that discovers
\* an empty catalog fails.
C37_EveryInitializeSelectsFirst ==
    OllamaInitializeReturned =>
      /\ last.catalog # <<>>
      /\ model = last.catalog[1]

\* ---- the visible content holds no reasoning
\* x holds a complete span: the characters of an opening tag and, after them,
\* a closing tag
HoldsSpan(x) ==
    LET l == Letters(x) IN
    \E o \in 1..Len(l), c \in 1..Len(l) :
      /\ o < c
      /\ l[o] = "<THINK>" \/ (l[o] = "<thi" /\ l[o + 1] = "nk>")
      /\ l[c] \in CloseTags

\* C38: the visible content parse_thinking_content returns never holds a
\* complete <think>...</think> span: parsing it again finds no thinking and
\* returns it unchanged.
C38_VisibleHoldsNoSpan ==
    Parsed =>
      /\ ~HoldsSpan(last.result.response)
      /\ last.again.thinking = None
      /\ last.again.response = last.result.response

\* ---- the stream of the local daemon
\* the line parses as JSON and carries the incremental text
CarriesText(l) == l.kind = "object" /\ l.response # None

\* the streams whose response is open
OpenStreams == BagCardinality(frame)

\* a step of a stream handled a line
LineHandled(e) == e.op = "stream" /\ e.line.kind # "none"

\* C39: the local-daemon stream yields, in arrival order, the text of each
\* line that parses as JSON and carries it, and nothing else; any other line
\* is skipped and the stream goes on; the stream ends when the transport ends;
\* each call sends a request of its own and starts with nothing yielded; and
\* abandoning the stream closes its response.
C39_StreamYieldsTexts ==
    /\ [](LineHandled(last) =>
            /\ last.item = (IF CarriesText(last.line) THEN last.line.response ELSE None)
            /\ last.outcome = (IF CarriesText(last.line) THEN "yield" ELSE "skip")
            /\ last.open)
    /\ [][ LineHandled(last') =>
             \E f \in Suspended :
               /\ f.op = "stream"
               /\ last'.arrived = f.arrived + 1
               /\ last'.yielded = (IF CarriesText(last'.line)
                                   THEN Append(f.yielded, last'.line.response)
                                   ELSE f.yielded)
               /\ Replaced(f, [ f EXCEPT !.arrived = last'.arrived,
                                         !.yielded = last'.yielded ]) ]_vars
    /\ [][ (StepOf({ "stream" }) /\ OpenStreams' > OpenStreams) =>
             /\ last'.sent = 1
             /\ last'.arrived = 0 /\ last'.yielded = <<>>
             /\ OpenStreams' = OpenStreams + 1 ]_vars
    /\ [][ (StepOf({ "stream" }) /\ last'.outcome \in { "ok", "TransportError", "abandoned" }
                                 /\ last'.sent = 0 /\ client \notin closed) =>
             /\ ~last'.open
             /\ OpenStreams' = OpenStreams - 1 ]_vars

=============================================================================
